---- MODULE Spec2Model ----
(***************************************************************************)
(* Connection orchestrator (DpsConnectionManager), provisioning engine     *)
(* (DpsProvisioning) and the two MQTT clients (PahoMqttClient) they drive, *)
(* the Simulator that owns them and its own MQTT client (SAS-token mode),  *)
(* the TelemetryPipeline with its retry queue, the events the Simulator   *)
(* creates through its StateMachine, and domain::DeviceStateMachine.       *)
(* Handlers are operators from a program state s (a record of the          *)
(* variables) to the state after the handler returned, so that nested      *)
(* calls and callbacks compose as in the C++ code; an action applies one   *)
(* entry point (an operator call, a tick, a transport callback).           *)
(***************************************************************************)
EXTENDS Integers, Sequences, FiniteSets, TLC

VARIABLES
    mgr,         \* DpsConnectionManager fields
    dps,         \* the DpsProvisioning object held by dpsProvisioning_
    provClient,  \* PahoMqttClient behind provisioningClient_
    hubClient,   \* PahoMqttClient behind hubClient_
    crashed,     \* the process died in a use-after-free
    sim,         \* Simulator fields
    mqttClient,  \* PahoMqttClient behind Simulator::mqttClient_
    out,         \* what the last entry point did: calls, callbacks, result
    pipe,        \* TelemetryPipeline fields
    transport,   \* the MockTransport behind TelemetryPipeline::transport_
    bus,         \* EventBus fields
    sent,        \* the publishes the transport accepted from the pipeline
    trk,         \* Simulator fields behind its events, and its StateMachine
    dsm,         \* domain::DeviceStateMachine fields
    twin,        \* TwinHandler fields, its files and its view of the hub
    evbus,       \* domain::EventBus fields and the record of its dispatches
    calc         \* the last call of a policy: arguments and result

pipeVars == <<pipe, transport, bus, sent>>

connVars == <<mgr, dps, provClient, hubClient, crashed, sim, mqttClient, out>>

devVars == <<trk, dsm, twin, evbus, calc>>

vars == <<mgr, dps, provClient, hubClient, crashed, sim, mqttClient, out,
          pipe, transport, bus, sent, trk, dsm, twin, evbus, calc>>

----------------------------------------------------------------------------
(* Bounds of the model *)

\* connect attempts one MQTT client may have in flight at once
MaxPending == 1
\* messages the provisioning client's offline queue may hold
MaxQueued == 1
\* events published to the EventBus in one run
MaxEvents == 2
\* handlers one event type may have on the EventBus
MaxHandlers == 1
\* connection losses that land between a check and a publish
MaxRaces == 1
\* events the Simulator has created before its entry points stop being called
MaxEmitted == 3

(* Program constants *)

\* DpsConfig::timeout default, seconds
kDefaultTimeout == 120
\* DpsProvisioning::kPollingInterval, seconds
kPollingInterval == 2
\* PahoMqttClient::kMaxOfflineQueueSize
kMaxOfflineQueueSize == 100
\* Simulator::MAX_RECONNECT_ATTEMPTS
MAX_RECONNECT_ATTEMPTS == 10
\* the cap of the reconnection delay in Simulator::attemptReconnection, seconds
kMaxReconnectDelay == 60
\* ExponentialBackoffRetryPolicy defaults: milliseconds, factor, attempts
kBaseDelayMs == 1000
kMultiplier == 2
kMaxDelayMs == 300000
kMaxAttempts == 5
\* AdaptiveReportingPolicy defaults, seconds, and its battery threshold
kStationaryInterval == 300
kMovingInterval == 60
kBatteryThreshold == 5
\* TelemetryPipeline::lastReportedBatteryPct_ (never assigned after construction)
kLastReportedBatteryPct == 100

\* seconds the clock may advance between two entry points
TimeSteps == {60, 61}

Min(a, b) == IF a < b THEN a ELSE b

----------------------------------------------------------------------------
(* Inputs *)

\* DeviceConfig: the three paths are modelled by whether the file exists.
\* All three present (with either timeout), or exactly one missing.
DeviceConfigs ==
    {c \in [imei : {"imeiA"}, certExists : BOOLEAN, keyExists : BOOLEAN,
            caExists : BOOLEAN, timeout : {60, 120}] :
        \/ c.certExists /\ c.keyExists /\ c.caExists
        \/ /\ c.timeout = 120
           /\ Cardinality({f \in {"cert", "key", "ca"} :
                  \/ f = "cert" /\ ~c.certExists
                  \/ f = "key" /\ ~c.keyExists
                  \/ f = "ca" /\ ~c.caExists}) = 1}

DefaultDeviceConfig ==
    [imei |-> "", certExists |-> FALSE, keyExists |-> FALSE,
     caExists |-> FALSE, timeout |-> 120]

\* completion callbacks an operator may pass (none = empty std::function)
Callbacks == {"none", "cb1", "cb2"}

\* what the platform answers to the calls made inside one entry point:
\* started = connect / connectWithTls returns true, accepted = the library
\* takes the publish / subscribe, twinRes and twinPatch = it takes the
\* subscribe to the twin response and to the desired-properties topic
NoEnv ==
    [started |-> FALSE, accepted |-> FALSE, twinRes |-> FALSE, twinPatch |-> FALSE]
StartEnvs ==
    [started : BOOLEAN, accepted : {FALSE}, twinRes : {FALSE}, twinPatch : {FALSE}]
AcceptEnvs ==
    [started : {FALSE}, accepted : BOOLEAN, twinRes : {FALSE}, twinPatch : {FALSE}]
\* a connection callback: the subscribes it makes, and the connect a reboot
\* command or a reconnection starts
SubscribeEnvs ==
    [started : {FALSE}, accepted : BOOLEAN, twinRes : BOOLEAN, twinPatch : BOOLEAN]
AllEnvs ==
    [started : BOOLEAN, accepted : BOOLEAN, twinRes : {TRUE}, twinPatch : {TRUE}]

\* DPS responses: topic under $dps/registrations/res/ or not, the status
\* field, and whether operationId / assignedHub+deviceId are present
DpsMessages ==
    [onResTopic : {TRUE}, status : {"assigning", "assigned", "failed"},
     complete : BOOLEAN]
    \cup {[onResTopic |-> FALSE, status |-> "assigned", complete |-> TRUE]}

----------------------------------------------------------------------------
(* out: the trace of the current entry point *)

\* the arguments of a connectToIotHub call: the callback passed and whether
\* the configuration's credential files are all present
NoArg == [callback |-> "none", credentialsOk |-> FALSE]

NewOut(op, arg) ==
    [op |-> op, arg |-> arg, ret |-> "void", cbs |-> <<>>, hub |-> <<>>,
     prov |-> <<>>, mqtt |-> <<>>, completions |-> <<>>]

Begin(s, op, arg) == [s EXCEPT !.out = NewOut(op, arg)]

Ret(s, b) == [s EXCEPT !.out.ret = IF b THEN "true" ELSE "false"]

----------------------------------------------------------------------------
(* PahoMqttClient *)

NewClient ==
    [connected |-> FALSE, pending |-> 0, disconnecting |-> FALSE,
     queue |-> <<>>, target |-> "none"]

\* connectWithTls: false when the certificate files do not validate or the
\* library refuses; otherwise an asynchronous attempt is in flight
PahoConnectWithTls(c, started) ==
    IF started THEN [c EXCEPT !.pending = @ + 1] ELSE c

\* disconnect: asynchronous, connected_ stays set until onDisconnected
PahoDisconnect(c) ==
    IF c.connected THEN [c EXCEPT !.disconnecting = TRUE] ELSE c

queueMessage(q, msg) ==
    Append(IF Len(q) >= kMaxOfflineQueueSize THEN Tail(q) ELSE q, msg)

\* publish: queued and refused while not connected, else MQTTAsync_sendMessage
PahoPublish(c, msg) ==
    IF ~c.connected THEN [c EXCEPT !.queue = queueMessage(@, msg)] ELSE c

PahoPublishResult(c, accepted) == c.connected /\ accepted

PahoSubscribeResult(c, accepted) == c.connected /\ accepted

\* flushOfflineQueue: every queued message is published and popped
PahoFlushed(c) == IF c.connected THEN [c EXCEPT !.queue = <<>>] ELSE c

----------------------------------------------------------------------------
(* Calls on the hub client ("hub") or on the Simulator's own client        *)
(* ("mqtt"), recorded in out.hub and out.mqtt                              *)

ClientConnected(s, cl) ==
    IF cl = "hub" THEN s.hubClient.connected ELSE s.mqttClient.connected

Issue(s, cl, ops) ==
    IF cl = "hub" THEN [s EXCEPT !.out.hub = @ \o ops]
    ELSE [s EXCEPT !.out.mqtt = @ \o ops]

\* PahoMqttClient::subscribe: nothing is sent while not connected
ClientSubscribe(s, cl, topic) ==
    IF ClientConnected(s, cl) THEN Issue(s, cl, <<"subscribe:" \o topic>>) ELSE s

\* PahoMqttClient::publish
ClientPublish(s, cl, msg) ==
    IF ClientConnected(s, cl) THEN Issue(s, cl, <<"publish:" \o msg>>)
    ELSE IF cl = "hub" THEN [s EXCEPT !.hubClient = PahoPublish(@, msg)]
    ELSE [s EXCEPT !.mqttClient = PahoPublish(@, msg)]

\* PahoMqttClient::flushOfflineQueue, each queued message published in turn
ClientFlush(s, cl) ==
    LET q == IF cl = "hub" THEN s.hubClient.queue ELSE s.mqttClient.queue
        s1 == Issue(s, cl, [i \in 1..Len(q) |-> "flush:" \o q[i]])
    IN  IF ~ClientConnected(s, cl) THEN s
        ELSE IF cl = "hub" THEN [s1 EXCEPT !.hubClient = PahoFlushed(@)]
        ELSE [s1 EXCEPT !.mqttClient = PahoFlushed(@)]

----------------------------------------------------------------------------
(* Simulator: connection flags and the handlers the transports call back   *)

\* dps = config_.hasDpsConfig(); twin = twinHandler_ is set, twinClient the
\* client it was built on, twinInit its initialized_ flag; sinceAttempt =
\* now - lastReconnectAttempt_, saturated at the longest delay (the
\* default-constructed time point lies further back than that)
NewSim ==
    [dps |-> FALSE, twin |-> FALSE, twinClient |-> "mqtt", twinInit |-> FALSE,
     running |-> FALSE, connected |-> FALSE, shouldReconnect |-> FALSE,
     reconnectAttempts |-> 0, sinceAttempt |-> kMaxReconnectDelay]

\* TwinHandler::initializeSubscriptions returns true
TwinSubscribed(s, env) ==
    ClientConnected(s, s.sim.twinClient) /\ env.twinRes /\ env.twinPatch

\* TwinHandler::initializeSubscriptions
initializeSubscriptions(s, env) ==
    LET cl == s.sim.twinClient
    IN  IF ~ClientConnected(s, cl) THEN s
        ELSE LET s1 == ClientSubscribe(s, cl, "twinRes")
             IN  IF ~env.twinRes THEN s1
                 ELSE LET s2 == ClientSubscribe(s1, cl, "twinPatch")
                      IN  IF ~env.twinPatch THEN s2
                          ELSE [s2 EXCEPT !.sim.twinInit = TRUE]

\* TwinHandler::requestFullTwin
requestFullTwin(s) ==
    IF ~s.sim.twinInit \/ ~ClientConnected(s, s.sim.twinClient) THEN s
    ELSE ClientPublish(s, s.sim.twinClient, "twinGet")

\* Simulator::initializeDeviceTwinAdapter: a new TwinHandler on the hub client
initializeDeviceTwinAdapter(s, env) ==
    LET s1 == [s EXCEPT !.sim.twinClient = "hub", !.sim.twinInit = FALSE]
        s2 == initializeSubscriptions(s1, env)
    IN  IF TwinSubscribed(s1, env) THEN requestFullTwin(s2) ELSE s2

\* Simulator::onDpsConnectionComplete
onDpsConnectionComplete(s, connected, env) ==
    IF connected
    THEN LET s1 == [s EXCEPT !.sim.connected = TRUE]
             s2 == IF s1.sim.twin THEN initializeDeviceTwinAdapter(s1, env) ELSE s1
         IN  [s2 EXCEPT !.sim.reconnectAttempts = 0,
                        !.sim.shouldReconnect = FALSE]
    ELSE [s EXCEPT !.sim.connected = FALSE, !.sim.shouldReconnect = TRUE]

\* Simulator::onMqttConnection
onMqttConnection(s, connected, env) ==
    LET s0 == [s EXCEPT !.sim.connected = connected]
    IN  IF connected
        THEN LET s1 == ClientSubscribe(s0, "mqtt", "c2d")
                 s2 == IF ~s1.sim.twin THEN s1
                       ELSE IF TwinSubscribed(s1, env)
                       THEN requestFullTwin(initializeSubscriptions(s1, env))
                       ELSE initializeSubscriptions(s1, env)
             IN  [s2 EXCEPT !.sim.reconnectAttempts = 0,
                            !.sim.shouldReconnect = FALSE]
        ELSE IF s0.sim.running
        THEN [s0 EXCEPT !.sim.shouldReconnect = TRUE, !.sim.sinceAttempt = 0]
        ELSE s0

----------------------------------------------------------------------------
(* DpsConnectionManager: callbacks into the owner *)

\* the std::function cb is called with (connected, reason); "sim" is the
\* lambda of Simulator::connectToIoTHub, "none" the empty function
InvokeCallback(s, cb, connected, env) ==
    IF cb = "none" THEN s
    ELSE LET s1 == [s EXCEPT !.out.cbs =
                        Append(@, [cb |-> cb, connected |-> connected])]
         IN  IF cb = "sim" THEN onDpsConnectionComplete(s1, connected, env)
             ELSE s1

\* if (connectionCallback_) connectionCallback_(connected, reason)
InvokeConnectionCallback(s, connected, env) ==
    InvokeCallback(s, s.mgr.connectionCallback, connected, env)

\* callback(false, reason) on the callback passed to a rejected connect
InvokeSupplied(s, cb) == InvokeCallback(s, cb, FALSE, NoEnv)

NoEngine ==
    [alive |-> FALSE, state |-> "Idle", callback |-> FALSE, operationId |-> "",
     sinceStart |-> 0, sincePoll |-> 0, timeout |-> kDefaultTimeout, fired |-> 0]

Success == [success |-> TRUE, assignedHub |-> "hub1", deviceId |-> "dev1"]
Failure == [success |-> FALSE, assignedHub |-> "", deviceId |-> ""]

\* DpsConnectionManager::onProvisioningComplete
onProvisioningComplete(s, result, env) ==
    LET ok ==
            LET s1 == [s EXCEPT !.mgr.assignedHub = result.assignedHub,
                                !.mgr.deviceId = result.deviceId,
                                !.mgr.state = "ConnectingToHub",
                                !.hubClient.target = "manager",
                                !.hubClient = PahoConnectWithTls(@, env.started),
                                !.out.hub = Append(@, "connect")]
            IN  IF env.started THEN s1
                ELSE InvokeConnectionCallback(
                         [s1 EXCEPT !.mgr.state = "Failed"], FALSE, env)
        ko == InvokeConnectionCallback(
                  [s EXCEPT !.mgr.state = "Failed"], FALSE, env)
        s2 == IF result.success THEN ok ELSE ko
    IN  \* dpsProvisioning_.reset(): the client keeps the engine's callbacks
        [s2 EXCEPT !.dps = NoEngine,
                   !.provClient.target =
                       IF s2.dps.alive THEN "freed" ELSE @]

\* DpsConnectionManager::onHubConnected
onHubConnected(s, connected, env) ==
    IF connected
    THEN InvokeConnectionCallback(
             ClientSubscribe([s EXCEPT !.mgr.state = "Connected"], "hub", "c2d"),
             TRUE, env)
    ELSE InvokeConnectionCallback([s EXCEPT !.mgr.state = "Failed"], FALSE, env)

----------------------------------------------------------------------------
(* DpsProvisioning *)

\* DpsProvisioning::completeProvisioning
completeProvisioning(s, result, env) ==
    LET s1 == [s EXCEPT !.dps.state =
                            IF result.success THEN "Completed" ELSE "Failed",
                        !.provClient = PahoDisconnect(@),
                        !.out.prov = Append(@, "disconnect")]
    IN  IF s1.dps.callback
        THEN onProvisioningComplete(
                 [s1 EXCEPT !.dps.fired = @ + 1,
                            !.out.completions = Append(@, result.success)],
                 result, env)
        ELSE s1

\* DpsProvisioning::isTimedOut
isTimedOut(e) ==
    IF e.state \in {"Idle", "Completed", "Failed"} THEN FALSE
    ELSE e.sinceStart > e.timeout

\* DpsProvisioning::startProvisioning
startProvisioning(s, dpsTimeout, env) ==
    LET s1 == [s EXCEPT !.dps.callback = TRUE,
                        !.dps.timeout = dpsTimeout,
                        !.dps.state = "ConnectingToDps",
                        !.dps.sinceStart = 0,
                        !.dps.sincePoll = 0,
                        !.provClient = PahoConnectWithTls(@, env.started),
                        !.out.prov = Append(@, "connect")]
    IN  IF env.started THEN s1 ELSE completeProvisioning(s1, Failure, env)

\* DpsProvisioning::cancel
cancel(s) ==
    IF s.dps.state \notin {"Idle", "Completed", "Failed"}
    THEN [s EXCEPT !.provClient = PahoDisconnect(@),
                   !.out.prov = Append(@, "disconnect"),
                   !.dps.state = "Failed"]
    ELSE s

\* DpsProvisioning::onDpsConnected
onDpsConnected(s, connected, env) ==
    IF s.dps.state # "ConnectingToDps" THEN s
    ELSE IF connected
    THEN LET s1 == [s EXCEPT !.out.prov = @ \o <<"subscribe", "publish:register">>,
                             !.provClient = PahoPublish(@, "register")]
         IN  IF PahoPublishResult(s.provClient, env.accepted)
             THEN [s1 EXCEPT !.dps.state = "SendingRegistration"]
             ELSE completeProvisioning(s1, Failure, env)
    ELSE completeProvisioning(s, Failure, env)

\* DpsProvisioning::handleAssignmentResponse
handleAssignmentResponse(s, msg, env) ==
    IF msg.status = "assigned"
    THEN IF msg.complete
         THEN completeProvisioning(s, Success, env)
         ELSE completeProvisioning(s, Failure, env)
    ELSE IF msg.status = "assigning" THEN s
    ELSE completeProvisioning(s, Failure, env)

\* DpsProvisioning::handleRegistrationResponse
handleRegistrationResponse(s, msg, env) ==
    IF msg.status = "assigning"
    THEN [s EXCEPT !.dps.operationId = IF msg.complete THEN "op1" ELSE "",
                   !.dps.state = "WaitingForAssignment"]
    ELSE IF msg.status = "assigned"
    THEN handleAssignmentResponse(s, msg, env)
    ELSE completeProvisioning(s, Failure, env)

\* DpsProvisioning::onDpsMessage
onDpsMessage(s, msg, env) ==
    IF msg.onResTopic
       /\ s.dps.state \in {"SendingRegistration", "WaitingForAssignment"}
    THEN handleRegistrationResponse(s, msg, env)
    ELSE s

\* DpsProvisioning::pollAssignmentStatus
pollAssignmentStatus(s) ==
    IF s.dps.state # "WaitingForAssignment" \/ s.dps.operationId = "" THEN s
    ELSE [s EXCEPT !.provClient = PahoPublish(@, "poll"),
                   !.out.prov = Append(@, "publish:poll")]

\* processEvents that polls without looking at the time of the last poll
Dps_processEventsUnpaced(s, env) ==
    IF isTimedOut(s.dps) THEN completeProvisioning(s, Failure, env)
    ELSE IF s.dps.state = "WaitingForAssignment"
    THEN [pollAssignmentStatus(s) EXCEPT !.dps.sincePoll = 0]
    ELSE s

\* DpsProvisioning::processEvents
Dps_processEvents(s, env) ==
    IF isTimedOut(s.dps) THEN completeProvisioning(s, Failure, env)
    ELSE IF s.dps.state = "WaitingForAssignment"
            /\ s.dps.sincePoll >= kPollingInterval
    THEN [pollAssignmentStatus(s) EXCEPT !.dps.sincePoll = 0]
    ELSE s

----------------------------------------------------------------------------
(* DpsConnectionManager: operations *)

\* DpsConnectionManager::validateCertificatePaths
validateCertificatePaths(config) ==
    config.certExists /\ config.keyExists /\ config.caExists

\* connectToIotHub that stores its arguments before it validates them
connectToIotHubStoreFirst(s, config, callback, env) ==
    LET s0 == [s EXCEPT !.mgr.config = config,
                        !.mgr.connectionCallback = callback]
    IN  IF s.mgr.state # "Disconnected" THEN InvokeSupplied(s0, callback)
        ELSE IF ~validateCertificatePaths(config) THEN InvokeSupplied(s0, callback)
        ELSE startProvisioning(
                 [s0 EXCEPT !.mgr.state = "Provisioning",
                            !.dps = [NoEngine EXCEPT !.alive = TRUE],
                            !.provClient.target = "engine"],
                 kDefaultTimeout, env)

\* DpsConnectionManager::connectToIotHub
connectToIotHub(s, config, callback, env) ==
    IF s.mgr.state # "Disconnected" THEN InvokeSupplied(s, callback)
    ELSE IF ~validateCertificatePaths(config) THEN InvokeSupplied(s, callback)
    ELSE LET s1 == [s EXCEPT !.mgr.config = config,
                             !.mgr.connectionCallback = callback,
                             !.mgr.state = "Provisioning",
                             \* make_unique<DpsProvisioning>(provisioningClient_)
                             !.dps = [NoEngine EXCEPT !.alive = TRUE],
                             !.provClient.target = "engine"]
         IN  \* dpsConfig.timeout keeps its default: config_.timeout is not copied
             startProvisioning(s1, kDefaultTimeout, env)

\* isConnected that trusts the transport alone
isConnectedTransportOnly(s) == s.hubClient.connected

\* DpsConnectionManager::isConnected
isConnected(s) == s.mgr.state = "Connected" /\ s.hubClient.connected

disconnectKeepingIdentity(s) ==
    LET s1 == IF s.dps.alive THEN cancel(s) ELSE s
        s2 == IF s1.hubClient.connected
              THEN [s1 EXCEPT !.hubClient = PahoDisconnect(@),
                              !.out.hub = Append(@, "disconnect")]
              ELSE s1
    IN  [s2 EXCEPT !.mgr.state = "Disconnected"]

\* DpsConnectionManager::disconnect
disconnect(s) ==
    LET s1 == IF s.dps.alive THEN cancel(s) ELSE s
        s2 == IF s1.hubClient.connected
              THEN [s1 EXCEPT !.hubClient = PahoDisconnect(@),
                              !.out.hub = Append(@, "disconnect")]
              ELSE s1
    IN  [s2 EXCEPT !.mgr.state = "Disconnected",
                   !.mgr.assignedHub = "",
                   !.mgr.deviceId = ""]

\* DpsConnectionManager::publish
publish(s, env) ==
    IF ~isConnected(s) THEN Ret(s, FALSE)
    ELSE Ret([s EXCEPT !.hubClient = PahoPublish(@, "telemetry"),
                       !.out.hub = Append(@, "publish")],
             PahoPublishResult(s.hubClient, env.accepted))

\* DpsConnectionManager::subscribe
subscribe(s, env) ==
    IF ~isConnected(s) THEN Ret(s, FALSE)
    ELSE Ret([s EXCEPT !.out.hub = Append(@, "subscribe")],
             PahoSubscribeResult(s.hubClient, env.accepted))

\* DpsConnectionManager::unsubscribe
unsubscribe(s, env) ==
    IF ~isConnected(s) THEN Ret(s, FALSE)
    ELSE Ret([s EXCEPT !.out.hub = Append(@, "unsubscribe")],
             PahoSubscribeResult(s.hubClient, env.accepted))

\* DpsConnectionManager::processEvents
Mgr_processEvents(s, env) ==
    IF s.dps.alive /\ s.mgr.state = "Provisioning"
    THEN Dps_processEvents(s, env)
    ELSE s   \* hubClient_->processEvents() is empty in PahoMqttClient

----------------------------------------------------------------------------
(* Simulator: operations *)

\* the DeviceConfig Simulator::connectToIoTHub builds (the configuration
\* passed validateDpsConfiguration)
SimDeviceConfig ==
    [imei |-> "imeiA", certExists |-> TRUE, keyExists |-> TRUE,
     caExists |-> TRUE, timeout |-> 120]

\* Simulator::emitEvent
emitEvent(s, env) ==
    IF ~s.sim.connected THEN s
    ELSE IF s.sim.dps /\ isConnected(s) THEN publish(s, env)
    ELSE ClientPublish(s, "mqtt", "event")

\* Simulator::connectToIoTHub; in SAS-token mode a token that cannot be
\* generated has the effect of a connect that is refused
connectToIoTHub(s, env) ==
    IF s.sim.dps THEN connectToIotHub(s, SimDeviceConfig, "sim", env)
    ELSE LET s1 == [s EXCEPT !.mqttClient = PahoConnectWithTls(@, env.started),
                             !.out.mqtt = Append(@, "connect")]
         IN  IF env.started THEN s1
             ELSE [s1 EXCEPT !.sim.shouldReconnect = TRUE]

\* the delay without the 60-second maximum
reconnectDelayUncapped(reconnectAttempts) == 2 ^ reconnectAttempts

\* delaySeconds of Simulator::attemptReconnection
reconnectDelay(reconnectAttempts) ==
    Min(kMaxReconnectDelay, 2 ^ reconnectAttempts)

\* attemptReconnection that starts a new budget when the old one is used up
attemptReconnectionRestarting(s, env) ==
    LET delaySeconds == Min(kMaxReconnectDelay, 2 ^ s.sim.reconnectAttempts)
    IN  IF s.sim.sinceAttempt < delaySeconds THEN s
        ELSE IF s.sim.reconnectAttempts < MAX_RECONNECT_ATTEMPTS
        THEN [connectToIoTHub(s, env) EXCEPT !.sim.reconnectAttempts = @ + 1,
                                             !.sim.sinceAttempt = 0]
        ELSE [s EXCEPT !.sim.reconnectAttempts = 0]

\* Simulator::attemptReconnection
attemptReconnection(s, env) ==
    LET delaySeconds == reconnectDelay(s.sim.reconnectAttempts)
    IN  IF s.sim.sinceAttempt < delaySeconds THEN s
        ELSE IF s.sim.reconnectAttempts < MAX_RECONNECT_ATTEMPTS
        THEN [connectToIoTHub(s, env) EXCEPT !.sim.reconnectAttempts = @ + 1,
                                             !.sim.sinceAttempt = 0]
        ELSE [s EXCEPT !.sim.shouldReconnect = FALSE]

\* Simulator::start
start(s, env) ==
    IF s.sim.running THEN s
    ELSE connectToIoTHub([s EXCEPT !.sim.running = TRUE], env)

\* Simulator::stop
stop(s) ==
    [s EXCEPT !.sim.running = FALSE,
              !.mqttClient = PahoDisconnect(@),
              !.out.mqtt = IF s.mqttClient.connected
                           THEN Append(@, "disconnect") ELSE @]

\* Simulator::tick; heartbeatDue = the tick emits an event (the heartbeat
\* interval has elapsed; battery and geofence events take the same path)
tick(s, heartbeatDue, env) ==
    IF ~s.sim.running THEN s
    ELSE LET s1 == IF heartbeatDue THEN emitEvent(s, env) ELSE s
             s2 == IF s1.sim.shouldReconnect
                   THEN attemptReconnection(s1, env) ELSE s1
         IN  IF s2.sim.dps THEN Mgr_processEvents(s2, env) ELSE s2

----------------------------------------------------------------------------
(* A callback of the provisioning client that lands on the released       *)
(* DpsProvisioning object: undefined behaviour. The stale object may read  *)
(* as terminal (the call returns), may read as in progress and complete    *)
(* with a failure through the stale callback_, or the process may die.     *)

DanglingOutcomes == {"ignored", "spurious", "crash"}

danglingEngineCall(s, outcome, env) ==
    CASE outcome = "ignored" -> s
      [] outcome = "spurious" ->
            onProvisioningComplete(
                [s EXCEPT !.out.prov = Append(@, "disconnect"),
                          !.provClient = PahoDisconnect(@),
                          !.out.completions = Append(@, FALSE)],
                Failure, env)
      [] outcome = "crash" -> [s EXCEPT !.crashed = TRUE]

\* connectionCallback_ of the provisioning client
provConnectionCallback(s, connected, outcome, env) ==
    CASE s.provClient.target = "engine" -> onDpsConnected(s, connected, env)
      [] s.provClient.target = "freed" -> danglingEngineCall(s, outcome, env)
      [] OTHER -> s

\* messageCallback_ of the provisioning client
provMessageCallback(s, msg, outcome, env) ==
    CASE s.provClient.target = "engine" -> onDpsMessage(s, msg, env)
      [] s.provClient.target = "freed" -> danglingEngineCall(s, outcome, env)
      [] OTHER -> s

\* connectionCallback_ of the hub client
hubConnectionCallback(s, connected, env) ==
    IF s.hubClient.target = "manager" THEN onHubConnected(s, connected, env)
    ELSE s

----------------------------------------------------------------------------
(* TelemetryPipeline, EventBus and MockTransport. Handlers are operators   *)
(* on p, the record of pipe, transport, bus and sent.                      *)

\* getBackoffDelay without std::min(delay, maxDelay_)
getBackoffDelayUncapped(attemptCount) ==
    kBaseDelayMs * kMultiplier ^ (attemptCount - 1)

\* ExponentialBackoffRetryPolicy::getBackoffDelay, milliseconds
getBackoffDelay(attemptCount) ==
    Min(kBaseDelayMs * kMultiplier ^ (attemptCount - 1), kMaxDelayMs)

\* shouldRetry that allows one attempt more
shouldRetryOnceMore(attemptCount) == attemptCount <= kMaxAttempts

\* ExponentialBackoffRetryPolicy::shouldRetry
shouldRetry(attemptCount) == attemptCount < kMaxAttempts

\* getHeartbeatInterval that ignores the motion state
getHeartbeatIntervalMoving(inMotion) == kMovingInterval

\* AdaptiveReportingPolicy::getHeartbeatInterval, seconds
getHeartbeatInterval(inMotion) ==
    IF inMotion THEN kMovingInterval ELSE kStationaryInterval

\* AdaptiveReportingPolicy::shouldReportBatteryLevel
shouldReportBatteryLevel(currentPct, lastReportedPct) ==
    (IF currentPct >= lastReportedPct THEN currentPct - lastReportedPct
     ELSE lastReportedPct - currentPct) >= kBatteryThreshold

EventTypes == {"Heartbeat", "MotionStart", "MotionStop", "LowBattery"}

\* the events a producer may publish: a type and a battery percentage
Events ==
    {e \in [type : EventTypes \ {"Heartbeat"}, pct : {20, 97, 100}] :
        IF e.type = "LowBattery" THEN e.pct < 100 ELSE e.pct = 100}

\* sinceHeartbeat = now - lastHeartbeat_, seconds; handed counts the calls
\* of sendTelemetry, which number the messages in hand-over order; a queue
\* entry is a PendingMessage with wait = nextRetry - now, milliseconds
NewPipe ==
    [running |-> FALSE, retryQueue |-> <<>>, lastMotionState |-> FALSE,
     sinceHeartbeat |-> 0, handed |-> 0]

\* the ITransport behind the pipeline: a MockTransport ...
NewTransport == [kind |-> "mock", connected |-> FALSE, failPublish |-> FALSE]

\* ... or a MqttTransportAdapter on a PahoMqttClient: connected = connected_,
\* queue = offlineQueue_, failPublish = MQTTAsync_sendMessage reports an
\* error. connected_ is a plain bool that the library's thread writes in
\* connectionLost while the driver thread reads it: race = that callback
\* runs after the driver's isConnected() and before its publish(), races
\* counts the times it did
NewAdapter ==
    [kind |-> "mqtt", connected |-> FALSE, failPublish |-> FALSE,
     queue |-> <<>>, race |-> FALSE, races |-> 0]

\* handlers = the handlers registered per event type, created = the events
\* published so far
NewBus == [queue |-> <<>>, handlers |-> 0, created |-> 0]

PipeInit ==
    /\ pipe = NewPipe
    /\ transport = NewTransport
    /\ bus = NewBus
    /\ sent = <<>>

\* connected_ as publish() reads it
ConnectedAtPublish(p) ==
    IF p.transport.kind = "mqtt"
    THEN p.transport.connected /\ ~p.transport.race
    ELSE p.transport.connected

\* transport_->publish(topic, payload, 1) returns true
TransportAccepts(p) == ConnectedAtPublish(p) /\ ~p.transport.failPublish

\* PahoMqttClient::publish of message id, reached through
\* MqttTransportAdapter::publish
AdapterPublish(p, id) ==
    LET t == [p.transport EXCEPT !.connected = ConnectedAtPublish(p),
                                 !.race = FALSE]
    IN  IF ~t.connected
        THEN [p EXCEPT !.transport = [t EXCEPT !.queue = queueMessage(@, id)]]
        ELSE IF ~t.failPublish
        THEN [p EXCEPT !.transport = t, !.sent = Append(@, id)]
        ELSE [p EXCEPT !.transport = t]

\* transport_->publish(topic, payload, 1) of message id
TransportPublish(p, id) ==
    IF p.transport.kind = "mqtt" THEN AdapterPublish(p, id)
    ELSE IF TransportAccepts(p) THEN [p EXCEPT !.sent = Append(@, id)] ELSE p

\* TelemetryPipeline::sendTelemetry
sendTelemetry(p, event) ==
    LET id == p.pipe.handed + 1
        p1 == [p EXCEPT !.pipe.handed = id]
    IN  IF ~p1.transport.connected
        THEN [p1 EXCEPT !.pipe.retryQueue =
                 Append(@, [id |-> id, attempts |-> 0, wait |-> 0])]
        ELSE IF TransportAccepts(p1) THEN TransportPublish(p1, id)
        ELSE [TransportPublish(p1, id) EXCEPT !.pipe.retryQueue =
                 Append(@, [id |-> id, attempts |-> 1,
                            wait |-> getBackoffDelay(1)])]

\* the while loop of TelemetryPipeline::retryFailedMessages
RECURSIVE retryLoop(_)
retryLoop(p) ==
    IF p.pipe.retryQueue = <<>> THEN p
    ELSE LET msg == Head(p.pipe.retryQueue)
             popped == [p EXCEPT !.pipe.retryQueue = Tail(@)]
         IN  IF msg.wait > 0 THEN p
             ELSE IF ~shouldRetry(msg.attempts) THEN retryLoop(popped)
             ELSE IF TransportAccepts(p)
             THEN retryLoop(TransportPublish(popped, msg.id))
             ELSE [TransportPublish(p, msg.id) EXCEPT
                            !.pipe.retryQueue[1].attempts = @ + 1,
                            !.pipe.retryQueue[1].wait =
                                getBackoffDelay(msg.attempts + 1)]

\* retryFailedMessages with the emptiness test of its first line inverted
retryFailedMessagesInverted(p) ==
    IF p.pipe.retryQueue # <<>> \/ ~p.transport.connected THEN p
    ELSE retryLoop(p)

\* TelemetryPipeline::retryFailedMessages
retryFailedMessages(p) ==
    IF p.pipe.retryQueue = <<>> \/ ~p.transport.connected THEN p
    ELSE retryLoop(p)

\* EventBus::publish
Bus_publish(p, event) ==
    [p EXCEPT !.bus.queue = Append(@, event), !.bus.created = @ + 1]

\* TelemetryPipeline::processEvents
Pipe_processEvents(p) ==
    IF ~p.pipe.running THEN p
    ELSE LET p1 == retryFailedMessages(p)
         IN  IF p1.pipe.sinceHeartbeat
                   >= getHeartbeatInterval(p1.pipe.lastMotionState)
             THEN [Bus_publish(p1, [type |-> "Heartbeat", pct |-> 100])
                      EXCEPT !.pipe.sinceHeartbeat = 0]
             ELSE p1

\* TelemetryPipeline::shouldPublish
shouldPublish(p, event) ==
    IF event.type = "LowBattery"
    THEN shouldReportBatteryLevel(event.pct, kLastReportedBatteryPct)
    ELSE TRUE

\* TelemetryPipeline::onEvent
onEvent(p, event) ==
    IF ~p.pipe.running \/ ~shouldPublish(p, event) THEN p
    ELSE [sendTelemetry(p, event) EXCEPT !.pipe.lastMotionState =
             IF event.type = "MotionStart" THEN TRUE
             ELSE IF event.type = "MotionStop" THEN FALSE
             ELSE @]

\* the handlers of one event called in turn
RECURSIVE callHandlers(_, _, _)
callHandlers(p, event, n) ==
    IF n = 0 THEN p ELSE callHandlers(onEvent(p, event), event, n - 1)

\* EventBus::processEvents
RECURSIVE Bus_processEvents(_)
Bus_processEvents(p) ==
    IF p.bus.queue = <<>> THEN p
    ELSE Bus_processEvents(
             callHandlers([p EXCEPT !.bus.queue = Tail(@)],
                          Head(p.bus.queue), p.bus.handlers))

\* TelemetryPipeline::start
Pipe_start(p) ==
    [p EXCEPT !.pipe.running = TRUE,
              !.pipe.sinceHeartbeat = 0,
              !.bus.handlers = @ + 1]

\* TelemetryPipeline::stop
Pipe_stop(p) == [p EXCEPT !.pipe.running = FALSE, !.bus.handlers = 0]

----------------------------------------------------------------------------
(* Simulator: the events it creates. Handlers are operators on k, the      *)
(* record held by trk.                                                     *)

\* the geofences of the configuration, in the order of config_.geofences
Fences == <<"office", "warehouse">>

\* the ids of a set of fences in configuration order, as Geo::checkGeofences
\* returns them
InOrder(ids) == SelectSeq(Fences, LAMBDA f : f \in ids)

\* the thread of the tick loop and the thread that reads the commands
Threads == {"main", "input"}

\* battery percentages: full, just above, at and below the 20 % mark
BatteryLevels == {100, 21, 20, 19}

\* position = the fences currentLocation_ lies in; emitted = the events
\* handed to emitEvent, in order; tickPosition = the position checked by the
\* previous tick; reg[t] = the value of sequenceNumber_ thread t has loaded
\* in createBaseEvent and not yet stored back, pend[t] = the type of the
\* event it is creating ("" when it is creating none)
NewTrk ==
    [running |-> FALSE, sequenceNumber |-> 0, emitted |-> <<>>,
     ignitionOn |-> FALSE, inMotion |-> FALSE, batteryPercentage |-> 100,
     state |-> "Idle", currentGeofences |-> <<>>,
     battery |-> 100, currentSpeed |-> FALSE, position |-> {},
     currentGeofenceIds |-> <<>>, tickPosition |-> {},
     reg |-> [t \in Threads |-> 0], pend |-> [t \in Threads |-> ""]]

\* Simulator::createBaseEvent followed by emitEvent, as every caller does
createBaseEvent(k, type, fence) ==
    [k EXCEPT !.sequenceNumber = @ + 1,
              !.emitted = Append(@, [type |-> type, fence |-> fence,
                                     sequence |-> k.sequenceNumber + 1])]

\* the state StateMachine derives from ignition and motion
StateFor(ignitionOn, inMotion) ==
    IF ignitionOn /\ inMotion THEN "Driving"
    ELSE IF ignitionOn THEN "Parked" ELSE "Idle"

\* StateMachine::processIgnition
processIgnition(k, on) ==
    IF k.ignitionOn = on THEN k
    ELSE LET k1 == createBaseEvent([k EXCEPT !.ignitionOn = on],
                       IF on THEN "IgnitionOn" ELSE "IgnitionOff", "")
         IN  [k1 EXCEPT !.state = IF k.batteryPercentage <= 20 THEN "LowBattery"
                                  ELSE StateFor(on, k.inMotion)]

\* StateMachine::processMotion
processMotion(k, moving) ==
    IF k.inMotion = moving THEN k
    ELSE LET k1 == createBaseEvent([k EXCEPT !.inMotion = moving],
                       IF moving THEN "MotionStart" ELSE "MotionStop", "")
         IN  [k1 EXCEPT !.state = IF k.batteryPercentage <= 20 THEN "LowBattery"
                                  ELSE StateFor(k.ignitionOn, moving)]

\* StateMachine::processBatteryLevel
processBatteryLevel(k, percentage) ==
    LET wasLowBattery == k.batteryPercentage <= 20
        isLowBattery == percentage <= 20
        k1 == [k EXCEPT !.batteryPercentage = percentage]
    IN  IF ~wasLowBattery /\ isLowBattery
        THEN [createBaseEvent(k1, "LowBattery", "") EXCEPT !.state = "LowBattery"]
        ELSE IF wasLowBattery /\ ~isLowBattery
        THEN [k1 EXCEPT !.state = StateFor(k.ignitionOn, k.inMotion)]
        ELSE k1

\* StateMachine::processGeofenceChange
processGeofenceChange(k, entered, geofenceId) ==
    IF entered
    THEN createBaseEvent([k EXCEPT !.currentGeofences = Append(@, geofenceId)],
                         "GeofenceEnter", geofenceId)
    ELSE IF \E i \in DOMAIN k.currentGeofences :
                k.currentGeofences[i] = geofenceId
    THEN LET i == CHOOSE i \in DOMAIN k.currentGeofences :
                      /\ k.currentGeofences[i] = geofenceId
                      /\ \A j \in 1..(i - 1) : k.currentGeofences[j] # geofenceId
         IN  createBaseEvent(
                 [k EXCEPT !.currentGeofences =
                      SubSeq(@, 1, i - 1) \o SubSeq(@, i + 1, Len(@))],
                 "GeofenceExit", geofenceId)
    ELSE k

\* is id one of the elements of the sequence ids
Has(ids, id) == \E i \in DOMAIN ids : ids[i] = id

\* the first loop of Simulator::checkGeofences, over insideIds
RECURSIVE enterLoop(_, _)
enterLoop(k, insideIds) ==
    IF insideIds = <<>> THEN k
    ELSE LET id == Head(insideIds)
         IN  IF Has(k.currentGeofenceIds, id)
             THEN enterLoop(k, Tail(insideIds))
             ELSE enterLoop([processGeofenceChange(k, TRUE, id) EXCEPT
                                !.currentGeofenceIds = Append(@, id)],
                            Tail(insideIds))

\* the second loop of Simulator::checkGeofences, over currentGeofenceIds_
\* from position i on
RECURSIVE exitLoop(_, _, _)
exitLoop(k, insideIds, i) ==
    IF i > Len(k.currentGeofenceIds) THEN k
    ELSE LET id == k.currentGeofenceIds[i]
         IN  IF Has(insideIds, id) THEN exitLoop(k, insideIds, i + 1)
             ELSE exitLoop([processGeofenceChange(k, FALSE, id) EXCEPT
                               !.currentGeofenceIds =
                                   SubSeq(@, 1, i - 1) \o SubSeq(@, i + 1, Len(@))],
                           insideIds, i)

\* checkGeofences that has forgotten the fences of the previous tick
checkGeofencesNoMemory(k) ==
    LET insideIds == InOrder(k.position)
    IN  exitLoop(enterLoop([k EXCEPT !.currentGeofenceIds = <<>>], insideIds),
                 insideIds, 1)

\* Simulator::checkGeofences
checkGeofences(k) ==
    LET insideIds == InOrder(k.position)
    IN  exitLoop(enterLoop(k, insideIds), insideIds, 1)

\* Simulator::checkHeartbeat; due = config_.heartbeatSeconds have elapsed
checkHeartbeat(k, due) ==
    IF due THEN createBaseEvent(k, "Heartbeat", "") ELSE k

\* Simulator::setSpeed; moving = speedKph > 0, over = speedKph exceeds
\* config_.speedLimitKph
Trk_setSpeed(k, moving, over) ==
    LET k1 == [k EXCEPT !.currentSpeed = moving]
        k2 == IF k.currentSpeed # moving THEN processMotion(k1, moving) ELSE k1
    IN  IF over THEN createBaseEvent(k2, "SpeedOverLimit", "") ELSE k2

\* Simulator::tick, the part that creates events: the battery drains to
\* percentage, updateLocation moves the device to newPosition, due = the
\* heartbeat interval has elapsed, routeEnds = routeProgress_ reaches 1
Trk_tick(k, percentage, newPosition, due, routeEnds) ==
    IF ~k.running THEN k
    ELSE LET k1 == processBatteryLevel([k EXCEPT !.battery = percentage],
                                       percentage)
             k2 == checkGeofences([k1 EXCEPT !.position = newPosition])
             k3 == [checkHeartbeat(k2, due) EXCEPT !.tickPosition = newPosition]
         IN  IF k3.currentSpeed /\ routeEnds THEN Trk_setSpeed(k3, FALSE, FALSE)
             ELSE k3

\* Simulator::generateSpike, types = the event types the generator draws
RECURSIVE generateSpike(_, _)
generateSpike(k, types) ==
    IF types = <<>> THEN k
    ELSE generateSpike(createBaseEvent(k, Head(types), ""), Tail(types))

----------------------------------------------------------------------------
(* domain::DeviceStateMachine *)

\* DeviceStateMachine::LOW_BATTERY_THRESHOLD, per cent
LOW_BATTERY_THRESHOLD == 15
\* DeviceStateMachine::PARKING_TIMEOUT, minutes
PARKING_TIMEOUT == 2

\* battery percentages handed to setBatteryLevel: below, at and above the
\* machine's threshold, and on both sides of the 20 % mark
DsmLevels == {10, 15, 19, 21, 100}

\* the fields an input can change
DsmFields(d) ==
    [currentState |-> d.currentState, ignitionOn |-> d.ignitionOn,
     inMotion |-> d.inMotion, connected |-> d.connected,
     batteryPercentage |-> d.batteryPercentage,
     motionStoppedTime |-> d.motionStoppedTime]

\* the member initialisers of DeviceStateMachine.  motionStoppedTime = the
\* minutes since motionStoppedTime_, -1 for the unset time point; op = the
\* last call, before = the fields when it began, emitted = the events it
\* published on the event bus
NewDsm ==
    [currentState |-> "Idle", ignitionOn |-> FALSE, inMotion |-> FALSE,
     connected |-> TRUE, batteryPercentage |-> 100, motionStoppedTime |-> -1,
     op |-> "", emitted |-> <<>>,
     before |-> [currentState |-> "Idle", ignitionOn |-> FALSE,
                 inMotion |-> FALSE, connected |-> TRUE,
                 batteryPercentage |-> 100, motionStoppedTime |-> -1]]

\* DeviceStateMachine::emitTrackerEvent
emitTrackerEvent(d, eventType) == [d EXCEPT !.emitted = Append(@, eventType)]

\* DeviceStateMachine::transitionTo
transitionTo(d, newState) ==
    LET oldState == d.currentState
        d1 == [d EXCEPT !.currentState = newState]
    IN  CASE newState = "Driving" ->
                 IF oldState # "Driving"
                 THEN emitTrackerEvent(d1, IF d.ignitionOn THEN "IgnitionOn"
                                           ELSE "MotionStart")
                 ELSE d1
          [] newState = "Parked" ->
                 IF oldState = "Driving"
                 THEN emitTrackerEvent(d1, IF d.ignitionOn THEN "MotionStop"
                                           ELSE "IgnitionOff")
                 ELSE d1
          [] newState = "Idle" ->
                 IF oldState # "Idle" THEN emitTrackerEvent(d1, "MotionStop")
                 ELSE d1
          [] newState = "LowBattery" -> emitTrackerEvent(d1, "LowBattery")
          [] OTHER -> d1

\* DeviceStateMachine::startParkingTimer
startParkingTimer(d) == [d EXCEPT !.motionStoppedTime = 0]

\* DeviceStateMachine::stopParkingTimer
stopParkingTimer(d) == [d EXCEPT !.motionStoppedTime = -1]

\* DeviceStateMachine::isParkingTimerExpired
isParkingTimerExpired(d) ==
    IF d.motionStoppedTime = -1 THEN FALSE
    ELSE d.motionStoppedTime >= PARKING_TIMEOUT

\* the Offline case with the battery looked at last
ReconstitutedBatteryLast(d) ==
    IF d.ignitionOn /\ d.inMotion THEN "Driving"
    ELSE IF d.ignitionOn \/ d.inMotion THEN "Parked"
    ELSE IF d.batteryPercentage < LOW_BATTERY_THRESHOLD THEN "LowBattery"
    ELSE "Idle"

\* the Offline case without a look at the battery
ReconstitutedIgnoringBattery(d) ==
    IF d.ignitionOn /\ d.inMotion THEN "Driving"
    ELSE IF d.ignitionOn \/ d.inMotion THEN "Parked"
    ELSE "Idle"

\* the Offline case of DeviceStateMachine::processEvent
Reconstituted(d) ==
    IF d.batteryPercentage < LOW_BATTERY_THRESHOLD THEN "LowBattery"
    ELSE IF d.ignitionOn /\ d.inMotion THEN "Driving"
    ELSE IF d.ignitionOn \/ d.inMotion THEN "Parked"
    ELSE "Idle"

\* DeviceStateMachine::processEvent
processEvent(d, event) ==
    LET state == d.currentState
        timed == CASE state = "Driving"
                        /\ event \in {"IgnitionOff", "MotionStopped"} ->
                          startParkingTimer(d)
                   [] state = "Parked"
                        /\ event \in {"IgnitionOn", "MotionDetected"} ->
                          stopParkingTimer(d)
                   [] OTHER -> d
        newState ==
            CASE state = "Idle" ->
                     IF event = "IgnitionOn" THEN "Driving"
                     ELSE IF event = "BatteryLow" THEN "LowBattery"
                     ELSE IF event = "ConnectionLost" THEN "Offline"
                     ELSE state
              [] state = "Driving" ->
                     IF event \in {"IgnitionOff", "MotionStopped"} THEN "Parked"
                     ELSE IF event = "BatteryLow" THEN "LowBattery"
                     ELSE IF event = "ConnectionLost" THEN "Offline"
                     ELSE state
              [] state = "Parked" ->
                     IF event \in {"IgnitionOn", "MotionDetected"} THEN "Driving"
                     ELSE IF event = "ParkingTimerExpired" THEN "Idle"
                     ELSE IF event = "BatteryLow" THEN "LowBattery"
                     ELSE IF event = "ConnectionLost" THEN "Offline"
                     ELSE state
              [] state = "LowBattery" ->
                     IF event = "BatteryNormal"
                     THEN IF d.ignitionOn THEN "Driving" ELSE "Idle"
                     ELSE IF event = "ConnectionLost" THEN "Offline"
                     ELSE state
              [] OTHER ->
                     IF event = "ConnectionRestored" THEN Reconstituted(d)
                     ELSE state
    IN  IF newState # state THEN transitionTo(timed, newState) ELSE timed

\* the start of a call: the fields are noted, no event published yet
Called(d, op) ==
    [d EXCEPT !.op = op, !.emitted = <<>>, !.before = DsmFields(d)]

\* DeviceStateMachine::setIgnition
Dsm_setIgnition(d, on) ==
    processEvent([Called(d, IF on THEN "setIgnition(true)"
                            ELSE "setIgnition(false)")
                     EXCEPT !.ignitionOn = on],
                 IF on THEN "IgnitionOn" ELSE "IgnitionOff")

\* DeviceStateMachine::setMotion
Dsm_setMotion(d, inMotion) ==
    LET d1 == [Called(d, IF inMotion THEN "setMotion(true)"
                         ELSE "setMotion(false)")
                  EXCEPT !.inMotion = inMotion]
    IN  IF inMotion THEN processEvent(d1, "MotionDetected")
        ELSE processEvent([d1 EXCEPT !.motionStoppedTime = 0], "MotionStopped")

\* DeviceStateMachine::setBatteryLevel
setBatteryLevel(d, percentage) ==
    LET wasLow == d.batteryPercentage < LOW_BATTERY_THRESHOLD
        isLow == percentage < LOW_BATTERY_THRESHOLD
        d1 == [Called(d, "setBatteryLevel")
                  EXCEPT !.batteryPercentage = percentage]
    IN  IF ~wasLow /\ isLow THEN processEvent(d1, "BatteryLow")
        ELSE IF wasLow /\ ~isLow THEN processEvent(d1, "BatteryNormal")
        ELSE d1

\* DeviceStateMachine::setConnectionStatus
setConnectionStatus(d, connected) ==
    LET wasConnected == d.connected
        d1 == [Called(d, IF connected THEN "setConnectionStatus(true)"
                         ELSE "setConnectionStatus(false)")
                  EXCEPT !.connected = connected]
    IN  IF wasConnected /\ ~connected THEN processEvent(d1, "ConnectionLost")
        ELSE IF ~wasConnected /\ connected
        THEN processEvent(d1, "ConnectionRestored")
        ELSE d1

\* TrackerSimulator::tick, the part that drives the state machine: the
\* parking timer is looked at and its expiry handed to processEvent
Dsm_tick(d) ==
    LET d1 == Called(d, "tick")
    IN  IF isParkingTimerExpired(d1) THEN processEvent(d1, "ParkingTimerExpired")
        ELSE d1

\* the event types Simulator::generateSpike draws from
SpikeTypes == {"MotionStart", "MotionStop", "IgnitionOn", "IgnitionOff",
               "Heartbeat"}

\* the first half of ++sequenceNumber_ in Simulator::createBaseEvent, run
\* by thread t: the counter is read
loadSequence(k, t, type) ==
    [k EXCEPT !.reg[t] = k.sequenceNumber, !.pend[t] = type]

\* the second half: the read value plus one is written back and becomes
\* the event's sequence; the event goes to emitEvent
storeSequence(k, t) ==
    [k EXCEPT !.sequenceNumber = k.reg[t] + 1,
              !.emitted = Append(@, [type |-> k.pend[t], fence |-> "",
                                     sequence |-> k.reg[t] + 1]),
              !.pend[t] = ""]

(* domain::EventBus with the handlers a subscriber may install. Handlers    *)
(* are operators on b, the record held by evbus.                            *)

MaxBusEvents == 3

MaxSubscriptions == 2

MaxAttemptCount == 10

\* a call of the retry policy: its arguments and what it returned
NewCalc ==
    [op |-> "", attemptCount |-> 0, other |-> 0, delay |-> 0, otherDelay |-> 0,
     retry |-> FALSE]

\* the event types of the subscriptions
BusTypes == {"Heartbeat", "MotionStart"}

\* what a subscribed handler does with an event: count it, publish an event
\* of type target on the bus, or call processEvents on the bus
BusHandlers ==
    { h \in [does : {"count", "publish", "processEvents"}, target : BusTypes] :
        h.does # "publish" => h.target = "Heartbeat" }

\* calls and drained record the handler calls and the events taken from the
\* queue, in the order they happened
NewEventBus ==
    [eventQueue |-> <<>>, handlers |-> [eventType \in BusTypes |-> <<>>],
     processing |-> FALSE, published |-> 0, subscriptions |-> 0,
     op |-> "", calls |-> <<>>, drained |-> <<>>]

EventBus_publish(b, eventType, by) ==
    [b EXCEPT !.published = @ + 1,
              !.eventQueue = Append(@, [id |-> b.published + 1,
                                        eventType |-> eventType, by |-> by])]

EventBus_subscribe(b, eventType, handler) ==
    [b EXCEPT !.subscriptions = @ + 1,
              !.handlers[eventType] =
                  Append(@, [id |-> b.subscriptions + 1, eventType |-> eventType,
                             does |-> handler.does, target |-> handler.target])]

EventBus_unsubscribe(b, eventType) == [b EXCEPT !.handlers[eventType] = <<>>]

RECURSIVE EventBus_processEvents(_)
RECURSIVE EventBus_dispatch(_, _, _)
RECURSIVE EventBus_drain(_)

\* handler(event); a handler publishes only while fewer than MaxBusEvents
\* events were published
EventBus_handler(b, h, event) ==
    LET b1 == [b EXCEPT !.calls = Append(@, [event |-> event.id,
                                             eventType |-> event.eventType,
                                             handler |-> h.id,
                                             subscribedTo |-> h.eventType,
                                             does |-> h.does])]
    IN  IF h.does = "publish"
        THEN IF b1.published < MaxBusEvents
             THEN EventBus_publish(b1, h.target, "handler") ELSE b1
        ELSE IF h.does = "processEvents" THEN EventBus_processEvents(b1)
        ELSE b1

\* for (const auto& handler : it->second)
EventBus_dispatch(b, hs, event) ==
    IF hs = <<>> THEN b
    ELSE EventBus_dispatch(EventBus_handler(b, Head(hs), event), Tail(hs), event)

\* while (true): take the front of the queue and dispatch it
EventBus_drain(b) ==
    IF b.eventQueue = <<>> THEN b
    ELSE LET event == Head(b.eventQueue)
             hs == b.handlers[event.eventType]
             b1 == [b EXCEPT !.eventQueue = Tail(@),
                             !.drained = Append(@,
                                 [event |-> event.id,
                                  subscribed |-> [i \in DOMAIN hs |-> hs[i].id]])]
         IN  EventBus_drain(EventBus_dispatch(b1, hs, event))

\* processEvents without the processing_ guard
EventBus_processEventsUnguarded(b) ==
    [EventBus_drain([b EXCEPT !.processing = TRUE]) EXCEPT !.processing = FALSE]

EventBus_processEvents(b) ==
    IF b.processing THEN b
    ELSE [EventBus_drain([b EXCEPT !.processing = TRUE]) EXCEPT
              !.processing = FALSE]

----------------------------------------------------------------------------
(* TwinHandler. Handlers are operators on t, the record held by twin; the   *)
(* record also holds the MQTT client's view of the hub (connected,          *)
(* subscribed, the requests the hub has not answered) and the two files.    *)

MaxWait == 2

\* the version numbers a desired document carries; 0 stands for an absent key
Versions == {1, 2}

\* std::to_string of a version number
to_string(v) == IF v = 1 THEN "1" ELSE IF v = 2 THEN "2" ELSE "0"

\* a desired-properties object: the values at "$version" and at
\* "config"."config_version", whether the one that is read holds a number,
\* and, for an object without either, whether it has other keys
Desired ==
    { d \in [version : Versions \cup {0}, config_version : Versions \cup {0},
             numeric : BOOLEAN, other : BOOLEAN] :
        /\ d.numeric \/ (d.version = 1 /\ d.config_version = 0)
        /\ d.other => (d.version = 0 /\ d.config_version = 0) }

\* nlohmann::json::empty on a desired object
empty(desired) ==
    desired.version = 0 /\ desired.config_version = 0 /\ ~desired.other

NoDesired == [version |-> 0, config_version |-> 0, numeric |-> TRUE, other |-> FALSE]

NoMessage ==
    [status |-> 0, rid |-> "", valid |-> TRUE, at |-> "none", desired |-> NoDesired]

\* a TwinUpdateResult as constructed
NoResult == [status |-> "", configVersion |-> "", hasChanges |-> FALSE]

\* what the file system and the MQTT library answer during one handler
TwinEnvs ==
    [accepted : BOOLEAN, fileOpens : BOOLEAN, errorOpens : BOOLEAN,
     subRes : BOOLEAN, subPatch : BOOLEAN]

\* the answers a subscribing, a publishing and a message handler can observe
SubscribeTwinEnvs ==
    { env \in TwinEnvs : env.accepted /\ env.fileOpens /\ env.errorOpens }

PublishTwinEnvs ==
    { env \in TwinEnvs :
        env.fileOpens /\ env.errorOpens /\ env.subRes /\ env.subPatch }

MessageTwinEnvs(message) ==
    { env \in TwinEnvs :
        /\ env.subRes /\ env.subPatch
        /\ message.valid => env.errorOpens
        /\ ~message.valid => (env.fileOpens /\ env.accepted)
        /\ ~env.fileOpens => env.accepted }

NewTwin ==
    [initialized |-> FALSE, currentConfigVersion |-> "",
     connected |-> FALSE, subscribed |-> {}, inflight |-> {}, waited |-> 0,
     configFile |-> "", errorFile |-> FALSE,
     op |-> "", message |-> NoMessage,
     before |-> [currentConfigVersion |-> "", initialized |-> FALSE,
                 configFile |-> ""],
     log |-> <<>>, ret |-> FALSE, result |-> NoResult]

\* an entry point of the adapter starts: the trace of the call is empty
TwinCalled(t, op, message) ==
    [t EXCEPT !.op = op, !.message = message,
              !.before = [currentConfigVersion |-> t.currentConfigVersion,
                          initialized |-> t.initialized,
                          configFile |-> t.configFile],
              !.errorFile = FALSE,
              !.log = <<>>, !.ret = FALSE, !.result = NoResult]

Logged(t, e, a, b, c) ==
    [t EXCEPT !.log = Append(@, [e |-> e, a |-> a, b |-> b, c |-> c])]

\* IMqttClient::publish on a twin topic with ?$rid=requestId; the hub owes
\* a response to a request the library accepted
Twin_publish(t, purpose, requestId, env) ==
    LET t1 == Logged(t, "publish", purpose, requestId, env.accepted)
    IN  IF env.accepted
        THEN [t1 EXCEPT !.ret = TRUE,
                        !.inflight = @ \cup {[rid |-> requestId, purpose |-> purpose]},
                        !.waited = 0]
        ELSE [t1 EXCEPT !.ret = FALSE]

twinResponseCallback(t, status) == Logged(t, "response", status, "", FALSE)

configUpdateCallback(t, result) ==
    Logged(t, "config", result.status, result.configVersion, result.hasChanges)

Twin_initializeSubscriptions(t, env) ==
    IF ~t.connected THEN [t EXCEPT !.ret = FALSE]
    ELSE IF ~env.subRes THEN [t EXCEPT !.ret = FALSE]
    ELSE LET t1 == [t EXCEPT !.subscribed = @ \cup {"res"}]
         IN  IF ~env.subPatch THEN [t1 EXCEPT !.ret = FALSE]
             ELSE [t1 EXCEPT !.subscribed = @ \cup {"desired"},
                             !.initialized = TRUE, !.ret = TRUE]

Twin_requestFullTwin(t, requestId, env) ==
    IF ~t.initialized THEN [t EXCEPT !.ret = FALSE]
    ELSE IF ~t.connected THEN [t EXCEPT !.ret = FALSE]
    ELSE Twin_publish(t, "GET", requestId, env)

sendReportedAck(t, requestId, env) ==
    IF ~t.connected THEN [t EXCEPT !.ret = FALSE]
    ELSE Twin_publish(t, "reported", requestId, env)

getConfigVersion(t) == t.currentConfigVersion

isInitialized(t) == t.initialized

writeErrorFile(t, env) ==
    IF env.errorOpens
    THEN Logged([t EXCEPT !.errorFile = TRUE], "errorFile", "written", "", FALSE)
    ELSE Logged(t, "errorFile", "failed", "", FALSE)

configVersionOfConfigFirst(desired) ==
    IF desired.config_version # 0 THEN to_string(desired.config_version)
    ELSE IF desired.version # 0 THEN to_string(desired.version)
    ELSE "unknown"

\* the version applyDesiredAndWriteFile reads from a desired object
configVersionOf(desired) ==
    IF desired.version # 0 THEN to_string(desired.version)
    ELSE IF desired.config_version # 0 THEN to_string(desired.config_version)
    ELSE "unknown"

applyDesiredAndWriteFile(t, desired, env) ==
    IF (desired.version # 0 \/ desired.config_version # 0) /\ ~desired.numeric
    THEN \* get<int> throws type_error
         Logged([t EXCEPT !.result = [status |-> "JsonParseError",
                                      configVersion |-> "",
                                      hasChanges |-> FALSE]],
                "apply", "JsonParseError", "", FALSE)
    ELSE LET configVersion == configVersionOf(desired)
             hasChanges == t.currentConfigVersion # configVersion
             t1 == [t EXCEPT !.currentConfigVersion = configVersion]
         IN  IF ~env.fileOpens
             THEN Logged([t1 EXCEPT !.result = [status |-> "FileWriteError",
                                                configVersion |-> configVersion,
                                                hasChanges |-> hasChanges]],
                         "apply", "FileWriteError", configVersion, hasChanges)
             ELSE Logged([t1 EXCEPT !.configFile = configVersion,
                                    !.result = [status |-> "Success",
                                                configVersion |-> configVersion,
                                                hasChanges |-> hasChanges]],
                         "apply", "Success", configVersion, hasChanges)

processTwinResponseAckFirst(t, message, env) ==
    IF message.status = 204 THEN twinResponseCallback(t, "Success")
    ELSE IF message.status # 200 THEN twinResponseCallback(t, "InvalidResponse")
    ELSE IF ~message.valid
         THEN twinResponseCallback(writeErrorFile(t, env), "JsonParseError")
    ELSE IF message.at = "none"
         THEN twinResponseCallback(t, "InvalidResponse")
    ELSE IF empty(message.desired) THEN t
    ELSE LET t1 == sendReportedAck(t, "2", env)
             t2 == applyDesiredAndWriteFile(t1, message.desired, env)
             t3 == configUpdateCallback(t2, t2.result)
         IN  twinResponseCallback(t3, t2.result.status)

processTwinResponse(t, message, env) ==
    IF message.status = 204 THEN twinResponseCallback(t, "Success")
    ELSE IF message.status # 200 THEN twinResponseCallback(t, "InvalidResponse")
    ELSE IF ~message.valid
         THEN twinResponseCallback(writeErrorFile(t, env), "JsonParseError")
    ELSE IF message.at = "none"
         THEN twinResponseCallback(t, "InvalidResponse")
    ELSE IF empty(message.desired) THEN t
    ELSE LET t1 == applyDesiredAndWriteFile(t, message.desired, env)
             t2 == IF t1.result.status = "Success"
                   THEN sendReportedAck(t1, "2", env) ELSE t1
             t3 == configUpdateCallback(t2, t1.result)
         IN  twinResponseCallback(t3, t1.result.status)

processDesiredPatch(t, message, env) ==
    IF ~message.valid THEN writeErrorFile(t, env)
    ELSE LET t1 == applyDesiredAndWriteFile(t, message.desired, env)
             t2 == IF t1.result.status = "Success"
                   THEN sendReportedAck(t1, "3", env) ELSE t1
         IN  configUpdateCallback(t2, t1.result)

\* topic is "res" for $iothub/twin/res/..., "desired" for
\* $iothub/twin/PATCH/properties/desired/...
handleMqttMessage(t, topic, message, env) ==
    IF topic = "res" THEN processTwinResponse(t, message, env)
    ELSE IF topic = "desired" THEN processDesiredPatch(t, message, env)
    ELSE t

\* the state of the Simulator's events, of the domain state machine, of the
\* twin adapter and of the event bus after construction
DevInit ==
    /\ trk = NewTrk /\ dsm = NewDsm /\ twin = NewTwin /\ evbus = NewEventBus
    /\ calc = NewCalc

----------------------------------------------------------------------------
(* The state as a record, and back *)

Cur == [mgr |-> mgr, dps |-> dps, provClient |-> provClient,
        hubClient |-> hubClient, crashed |-> crashed, sim |-> sim,
        mqttClient |-> mqttClient, out |-> out]

Commit(s) ==
    /\ mgr' = s.mgr
    /\ dps' = s.dps
    /\ provClient' = s.provClient
    /\ hubClient' = s.hubClient
    /\ crashed' = s.crashed
    /\ sim' = s.sim
    /\ mqttClient' = s.mqttClient
    /\ out' = s.out
    /\ UNCHANGED pipeVars
    /\ UNCHANGED devVars

Init ==
    /\ mgr = [state |-> "Disconnected", config |-> DefaultDeviceConfig,
              connectionCallback |-> "none", assignedHub |-> "", deviceId |-> ""]
    /\ dps = NoEngine
    /\ provClient = NewClient
    /\ hubClient = NewClient
    /\ crashed = FALSE
    /\ sim = NewSim
    /\ mqttClient = NewClient
    /\ out = NewOut("init", NoArg)
    /\ PipeInit
    /\ DevInit

----------------------------------------------------------------------------
(* Entry points *)

\* the outcomes a callback of the provisioning client can have now
OutcomesNow ==
    IF provClient.target = "freed" THEN DanglingOutcomes ELSE {"ignored"}

\* the operator calls connectToIotHub(config, callback)
ConnectToIotHub ==
    /\ ~crashed
    /\ provClient.pending < MaxPending
    /\ \E config \in DeviceConfigs, callback \in Callbacks, env \in StartEnvs :
         Commit(connectToIotHub(
             Begin(Cur, "connectToIotHub",
                   [callback |-> callback,
                    credentialsOk |-> validateCertificatePaths(config)]),
             config, callback, env))

\* the operator calls disconnect()
Disconnect ==
    /\ ~crashed
    /\ Commit(disconnect(Begin(Cur, "disconnect", NoArg)))

\* the operator calls publish(topic, payload)
Publish ==
    /\ ~crashed
    /\ \E env \in AcceptEnvs : Commit(publish(Begin(Cur, "publish", NoArg), env))

\* the operator calls subscribe(topic)
Subscribe ==
    /\ ~crashed
    /\ \E env \in AcceptEnvs : Commit(subscribe(Begin(Cur, "subscribe", NoArg), env))

\* the operator calls unsubscribe(topic)
Unsubscribe ==
    /\ ~crashed
    /\ \E env \in AcceptEnvs : Commit(unsubscribe(Begin(Cur, "unsubscribe", NoArg), env))

\* the driver calls processEvents(); a poll that would fill the offline
\* queue of the provisioning client beyond MaxQueued is left out
ProcessEvents ==
    /\ ~crashed
    /\ LET s == Mgr_processEvents(Begin(Cur, "processEvents", NoArg), NoEnv)
       IN  /\ Len(s.provClient.queue) <= MaxQueued
           /\ Commit(s)

\* steady_clock advances by d seconds
Advance ==
    /\ ~crashed
    /\ dps.alive
    /\ \E d \in TimeSteps :
         /\ dps' = [dps EXCEPT
                      !.sinceStart = Min(@ + d, dps.timeout + 1),
                      !.sincePoll = Min(@ + d, kPollingInterval)]
         /\ dps' # dps
         /\ out' = NewOut("advance", NoArg)
         /\ UNCHANGED <<mgr, provClient, hubClient, crashed, sim, mqttClient>>
         /\ UNCHANGED pipeVars
         /\ UNCHANGED devVars

\* PahoMqttClient::onConnected of the provisioning client
ProvOnConnected ==
    /\ ~crashed
    /\ provClient.pending > 0
    /\ \E env \in AcceptEnvs, outcome \in OutcomesNow :
         LET s0 == Begin(Cur, "prov.onConnected", NoArg)
             s1 == [s0 EXCEPT !.provClient.pending = @ - 1,
                              !.provClient.connected = TRUE]
             s2 == provConnectionCallback(s1, TRUE, outcome, env)
         IN  Commit([s2 EXCEPT !.provClient = PahoFlushed(@)])

\* PahoMqttClient::onConnectFailure of the provisioning client
ProvOnConnectFailure ==
    /\ ~crashed
    /\ provClient.pending > 0
    /\ \E env \in {NoEnv}, outcome \in OutcomesNow :
         LET s0 == Begin(Cur, "prov.onConnectFailure", NoArg)
             s1 == [s0 EXCEPT !.provClient.pending = @ - 1,
                              !.provClient.connected = FALSE]
         IN  Commit(provConnectionCallback(s1, FALSE, outcome, env))

\* PahoMqttClient::connectionLost of the provisioning client
ProvConnectionLost ==
    /\ ~crashed
    /\ provClient.connected
    /\ \E env \in {NoEnv}, outcome \in OutcomesNow :
         LET s0 == Begin(Cur, "prov.connectionLost", NoArg)
             s1 == [s0 EXCEPT !.provClient.connected = FALSE,
                              !.provClient.disconnecting = FALSE]
         IN  Commit(provConnectionCallback(s1, FALSE, outcome, env))

\* PahoMqttClient::onDisconnected of the provisioning client
ProvOnDisconnected ==
    /\ ~crashed
    /\ provClient.disconnecting
    /\ LET s0 == Begin(Cur, "prov.onDisconnected", NoArg)
       IN  Commit([s0 EXCEPT !.provClient.connected = FALSE,
                             !.provClient.disconnecting = FALSE])

\* PahoMqttClient::messageArrived of the provisioning client
ProvMessageArrived ==
    /\ ~crashed
    /\ provClient.connected
    /\ hubClient.pending < MaxPending
    /\ \E msg \in DpsMessages, env \in StartEnvs, outcome \in OutcomesNow :
         Commit(provMessageCallback(
             Begin(Cur, "prov.messageArrived", NoArg), msg, outcome, env))

\* PahoMqttClient::onConnected of the hub client
HubOnConnected ==
    /\ ~crashed
    /\ hubClient.pending > 0
    /\ \E env \in IF sim.twin THEN SubscribeEnvs ELSE {NoEnv} :
         LET s0 == Begin(Cur, "hub.onConnected", NoArg)
             s1 == [s0 EXCEPT !.hubClient.pending = @ - 1,
                              !.hubClient.connected = TRUE]
         IN  Commit(ClientFlush(hubConnectionCallback(s1, TRUE, env), "hub"))

\* PahoMqttClient::onConnectFailure of the hub client
HubOnConnectFailure ==
    /\ ~crashed
    /\ hubClient.pending > 0
    /\ \E env \in {NoEnv} :
         LET s0 == Begin(Cur, "hub.onConnectFailure", NoArg)
             s1 == [s0 EXCEPT !.hubClient.pending = @ - 1,
                              !.hubClient.connected = FALSE]
         IN  Commit(hubConnectionCallback(s1, FALSE, env))

\* PahoMqttClient::connectionLost of the hub client
HubConnectionLost ==
    /\ ~crashed
    /\ hubClient.connected
    /\ \E env \in {NoEnv} :
         LET s0 == Begin(Cur, "hub.connectionLost", NoArg)
             s1 == [s0 EXCEPT !.hubClient.connected = FALSE,
                              !.hubClient.disconnecting = FALSE]
         IN  Commit(hubConnectionCallback(s1, FALSE, env))

\* PahoMqttClient::onDisconnected of the hub client
HubOnDisconnected ==
    /\ ~crashed
    /\ hubClient.disconnecting
    /\ LET s0 == Begin(Cur, "hub.onDisconnected", NoArg)
       IN  Commit([s0 EXCEPT !.hubClient.connected = FALSE,
                             !.hubClient.disconnecting = FALSE])

Next ==
    \/ ConnectToIotHub
    \/ Disconnect
    \/ Publish
    \/ Subscribe
    \/ Unsubscribe
    \/ ProcessEvents
    \/ Advance
    \/ ProvOnConnected
    \/ ProvOnConnectFailure
    \/ ProvConnectionLost
    \/ ProvOnDisconnected
    \/ ProvMessageArrived
    \/ HubOnConnected
    \/ HubOnConnectFailure
    \/ HubConnectionLost
    \/ HubOnDisconnected

Spec == Init /\ [][Next]_vars

----------------------------------------------------------------------------
(* The pipeline with its event bus and transport *)

CurPipe == [pipe |-> pipe, transport |-> transport, bus |-> bus, sent |-> sent]

CommitPipe(p) ==
    /\ pipe' = p.pipe
    /\ transport' = p.transport
    /\ bus' = p.bus
    /\ sent' = p.sent
    /\ UNCHANGED connVars
    /\ UNCHANGED devVars

\* seconds the clock may advance between two entry points of the pipeline
PipeTimeSteps == {60, 300}

\* TelemetryPipeline::start(deviceId)
PipeStart ==
    /\ bus.handlers < MaxHandlers
    /\ CommitPipe(Pipe_start(CurPipe))

\* TelemetryPipeline::stop(), which changes nothing unless running
PipeStop ==
    /\ pipe.running
    /\ CommitPipe(Pipe_stop(CurPipe))

\* TelemetryPipeline::processEvents(), which returns at once unless running
PipeProcessEvents ==
    /\ pipe.running
    /\ CommitPipe(Pipe_processEvents(CurPipe))

\* a producer calls EventBus::publish(event)
BusPublish ==
    /\ bus.created < MaxEvents
    /\ \E event \in Events : CommitPipe(Bus_publish(CurPipe, event))

\* EventBus::processEvents()
BusProcessEvents ==
    /\ bus.queue # <<>>
    /\ CommitPipe(Bus_processEvents(CurPipe))

\* MockTransport::setConnected(connected)
TransportSetConnected ==
    \E connected \in BOOLEAN :
        /\ connected # transport.connected
        /\ CommitPipe([CurPipe EXCEPT !.transport.connected = connected])

\* MockTransport::setFailPublish(fail)
TransportSetFailPublish ==
    \E fail \in BOOLEAN :
        /\ fail # transport.failPublish
        /\ CommitPipe([CurPipe EXCEPT !.transport.failPublish = fail])

\* steady_clock advances by d seconds. Once MaxEvents events exist no further
\* heartbeat is produced: the age of the last heartbeat stops growing short of
\* the interval, while the retry delays keep elapsing
PipeAdvance ==
    \E d \in PipeTimeSteps :
        LET grown == Min(pipe.sinceHeartbeat + d, kStationaryInterval)
            since == IF \/ bus.created < MaxEvents
                        \/ grown < getHeartbeatInterval(pipe.lastMotionState)
                     THEN grown ELSE pipe.sinceHeartbeat
        IN  /\ pipe' = [pipe EXCEPT
                  !.sinceHeartbeat = since,
                  !.retryQueue =
                      [i \in DOMAIN @ |->
                          [@[i] EXCEPT !.wait = IF @ > d * 1000
                                                THEN @ - d * 1000 ELSE 0]]]
            /\ pipe' # pipe
            /\ UNCHANGED <<transport, bus, sent>>
            /\ UNCHANGED connVars
            /\ UNCHANGED devVars

InitPipe == Init

NextPipe ==
    \/ PipeStart
    \/ PipeStop
    \/ PipeProcessEvents
    \/ BusPublish
    \/ BusProcessEvents
    \/ TransportSetConnected
    \/ TransportSetFailPublish
    \/ PipeAdvance

SpecPipe == InitPipe /\ [][NextPipe]_vars

\* the driver loop keeps calling processEvents on the pipeline and on the
\* bus, and the steady clock keeps advancing
FairPipe ==
    /\ WF_vars(PipeProcessEvents)
    /\ WF_vars(BusProcessEvents)
    /\ WF_vars(PipeAdvance)

SpecPipeLive == InitPipe /\ [][NextPipe]_vars /\ FairPipe

----------------------------------------------------------------------------
(* The pipeline on a MqttTransportAdapter: the driver thread runs the       *)
(* pipeline and the bus, the MQTT library's thread runs the connection      *)
(* callbacks of PahoMqttClient.                                             *)

InitPipeMqtt ==
    /\ mgr = [state |-> "Disconnected", config |-> DefaultDeviceConfig,
              connectionCallback |-> "none", assignedHub |-> "", deviceId |-> ""]
    /\ dps = NoEngine
    /\ provClient = NewClient
    /\ hubClient = NewClient
    /\ crashed = FALSE
    /\ sim = NewSim
    /\ mqttClient = NewClient
    /\ out = NewOut("init", NoArg)
    /\ pipe = NewPipe
    /\ transport = NewAdapter
    /\ bus = NewBus
    /\ sent = <<>>
    /\ DevInit

\* PahoMqttClient::onConnected: connected_ is set, the connection callback
\* runs (the adapter forwards it; the pipeline registers no handler), then
\* flushOfflineQueue publishes and pops every queued message
AdapterOnConnected ==
    /\ ~transport.connected
    /\ CommitPipe([CurPipe EXCEPT
           !.transport.connected = TRUE,
           !.transport.queue = <<>>,
           !.sent = IF transport.failPublish THEN @ ELSE @ \o transport.queue])

\* PahoMqttClient::connectionLost, run while the driver thread is idle
AdapterConnectionLost ==
    /\ transport.connected
    /\ CommitPipe([CurPipe EXCEPT !.transport.connected = FALSE,
                                  !.transport.race = FALSE])

\* PahoMqttClient::connectionLost, run by the library's thread between the
\* driver's next isConnected() and the publish() that follows it
AdapterConnectionLostRacing ==
    /\ transport.connected
    /\ ~transport.race
    /\ transport.races < MaxRaces
    /\ CommitPipe([CurPipe EXCEPT !.transport.race = TRUE,
                                  !.transport.races = @ + 1])

\* MQTTAsync_sendMessage starts or stops reporting an error
AdapterSendFails ==
    \E fail \in BOOLEAN :
        /\ fail # transport.failPublish
        /\ CommitPipe([CurPipe EXCEPT !.transport.failPublish = fail])

NextPipeMqtt ==
    \/ PipeStart
    \/ PipeProcessEvents
    \/ BusPublish
    \/ BusProcessEvents
    \/ PipeAdvance
    \/ AdapterOnConnected
    \/ AdapterConnectionLost
    \/ AdapterConnectionLostRacing
    \/ AdapterSendFails

SpecPipeMqtt == InitPipeMqtt /\ [][NextPipeMqtt]_vars

----------------------------------------------------------------------------
(* The pipeline during an offline period: the transport stays disconnected  *)
(* while a producer keeps publishing, so every published event that passes  *)
(* shouldPublish is pushed on retryQueue_.                                  *)

\* events a producer publishes during the offline period
MaxBacklog == kMaxOfflineQueueSize + 1

\* a producer calls EventBus::publish(event); the bus is drained before the
\* next event is published
ProducerPublish ==
    /\ bus.created < MaxBacklog
    /\ bus.queue = <<>>
    /\ \E event \in Events : CommitPipe(Bus_publish(CurPipe, event))

NextPipeOffline ==
    \/ PipeStart
    \/ PipeStop
    \/ PipeProcessEvents
    \/ ProducerPublish
    \/ BusProcessEvents

SpecPipeOffline == InitPipe /\ [][NextPipeOffline]_vars

----------------------------------------------------------------------------
(* The Simulator driving the orchestrator (DPS mode) or its own client     *)
(* (SAS-token mode)                                                        *)

\* seconds the clock may advance between two entry points of the Simulator
SimTimeSteps == {30, 61}

\* a connect the library can still take: at most MaxPending are in flight
StartChoices(c) == IF c.pending < MaxPending THEN BOOLEAN ELSE {FALSE}

\* an event can be emitted while the offline queue has room in the model
EmitChoices == IF Len(mqttClient.queue) < MaxQueued THEN BOOLEAN ELSE {FALSE}

SimEnvs ==
    {e \in AllEnvs :
        e.started \in StartChoices(IF sim.dps THEN provClient ELSE mqttClient)}

InitSim(dpsMode) ==
    /\ mgr = [state |-> "Disconnected", config |-> DefaultDeviceConfig,
              connectionCallback |-> "none", assignedHub |-> "", deviceId |-> ""]
    /\ dps = NoEngine
    /\ provClient = NewClient
    /\ hubClient = NewClient
    /\ crashed = FALSE
    /\ \E withTwin \in BOOLEAN : sim = [NewSim EXCEPT !.dps = dpsMode, !.twin = withTwin]
    /\ mqttClient = NewClient
    /\ out = NewOut("init", NoArg)
    /\ PipeInit
    /\ DevInit

\* Simulator::start()
SimStart ==
    /\ ~crashed
    /\ \E env \in SimEnvs : Commit(start(Begin(Cur, "sim.start", NoArg), env))

\* Simulator::stop()
SimStop ==
    /\ ~crashed
    /\ Commit(stop(Begin(Cur, "sim.stop", NoArg)))

\* Simulator::tick()
SimTick ==
    /\ ~crashed
    /\ \E heartbeatDue \in EmitChoices, env \in SimEnvs :
         Commit(tick(Begin(Cur, "sim.tick", NoArg), heartbeatDue, env))

\* Simulator::generateSpike(1)
SimGenerateSpike ==
    /\ ~crashed
    /\ Len(mqttClient.queue) < MaxQueued
    /\ \E env \in AcceptEnvs :
         Commit(emitEvent(Begin(Cur, "sim.generateSpike", NoArg), env))

\* steady_clock advances by d seconds
SimAdvance ==
    /\ ~crashed
    /\ \E d \in SimTimeSteps :
         /\ sim' = [sim EXCEPT !.sinceAttempt = Min(@ + d, kMaxReconnectDelay)]
         /\ dps' = IF dps.alive
                   THEN [dps EXCEPT
                           !.sinceStart = Min(@ + d, dps.timeout + 1),
                           !.sincePoll = Min(@ + d, kPollingInterval)]
                   ELSE dps
         /\ <<sim', dps'>> # <<sim, dps>>
         /\ out' = NewOut("advance", NoArg)
         /\ UNCHANGED <<mgr, provClient, hubClient, crashed, mqttClient>>
         /\ UNCHANGED pipeVars
         /\ UNCHANGED devVars

\* PahoMqttClient::onConnected of the Simulator's client
MqttOnConnected ==
    /\ ~crashed
    /\ mqttClient.pending > 0
    /\ \E env \in SubscribeEnvs :
         LET s0 == Begin(Cur, "mqtt.onConnected", NoArg)
             s1 == [s0 EXCEPT !.mqttClient.pending = @ - 1,
                              !.mqttClient.connected = TRUE]
         IN  Commit(ClientFlush(onMqttConnection(s1, TRUE, env), "mqtt"))

\* PahoMqttClient::onConnectFailure of the Simulator's client
MqttOnConnectFailure ==
    /\ ~crashed
    /\ mqttClient.pending > 0
    /\ LET s0 == Begin(Cur, "mqtt.onConnectFailure", NoArg)
           s1 == [s0 EXCEPT !.mqttClient.pending = @ - 1,
                            !.mqttClient.connected = FALSE]
       IN  Commit(onMqttConnection(s1, FALSE, NoEnv))

\* PahoMqttClient::connectionLost of the Simulator's client
MqttConnectionLost ==
    /\ ~crashed
    /\ mqttClient.connected
    /\ LET s0 == Begin(Cur, "mqtt.connectionLost", NoArg)
           s1 == [s0 EXCEPT !.mqttClient.connected = FALSE,
                            !.mqttClient.disconnecting = FALSE]
       IN  Commit(onMqttConnection(s1, FALSE, NoEnv))

\* PahoMqttClient::onDisconnected of the Simulator's client
MqttOnDisconnected ==
    /\ ~crashed
    /\ mqttClient.disconnecting
    /\ LET s0 == Begin(Cur, "mqtt.onDisconnected", NoArg)
       IN  Commit([s0 EXCEPT !.mqttClient.connected = FALSE,
                             !.mqttClient.disconnecting = FALSE])

InitSimDps == InitSim(TRUE)

NextSimDps ==
    \/ SimStart
    \/ SimStop
    \/ SimTick
    \/ SimGenerateSpike
    \/ SimAdvance
    \/ ProvOnConnected
    \/ ProvOnConnectFailure
    \/ ProvConnectionLost
    \/ ProvOnDisconnected
    \/ ProvMessageArrived
    \/ HubOnConnected
    \/ HubOnConnectFailure
    \/ HubConnectionLost

\* the driver keeps ticking, time passes, and what the transports have in
\* flight is delivered
FairSimDps ==
    /\ WF_vars(SimTick)
    /\ WF_vars(SimAdvance)
    /\ WF_vars(ProvOnConnected \/ ProvOnConnectFailure)
    /\ WF_vars(HubOnConnected \/ HubOnConnectFailure)
    /\ WF_vars(ProvOnDisconnected)

SpecSimDps == InitSimDps /\ [][NextSimDps]_vars /\ FairSimDps

\* Simulator::onMqttMessage for {"cmd":"reboot"}: stop(), a pause, start()
onMqttMessageReboot(s, env) == start(stop(s), env)

\* PahoMqttClient::messageArrived of the hub client with a reboot command,
\* forwarded by DpsConnectionManager::onHubMessage
HubRebootArrived ==
    /\ ~crashed
    /\ hubClient.connected
    /\ hubClient.target = "manager"
    /\ \E env \in SimEnvs :
         Commit(onMqttMessageReboot(
             Begin(Cur, "hub.messageArrived", NoArg), env))

NextSimDpsCommands ==
    \/ SimStart
    \/ SimStop
    \/ SimTick
    \/ SimGenerateSpike
    \/ SimAdvance
    \/ ProvOnConnected
    \/ ProvOnConnectFailure
    \/ ProvConnectionLost
    \/ ProvOnDisconnected
    \/ ProvMessageArrived
    \/ HubOnConnected
    \/ HubOnConnectFailure
    \/ HubConnectionLost
    \/ HubRebootArrived

\* the Simulator in DPS mode with cloud-to-device commands arriving
SpecSimDpsCommands == InitSimDps /\ [][NextSimDpsCommands]_vars

InitSimLegacy == InitSim(FALSE)

NextSimLegacy ==
    \/ SimStart
    \/ SimStop
    \/ SimTick
    \/ SimGenerateSpike
    \/ SimAdvance
    \/ MqttOnConnected
    \/ MqttOnConnectFailure
    \/ MqttConnectionLost
    \/ MqttOnDisconnected

SpecSimLegacy == InitSimLegacy /\ [][NextSimLegacy]_vars

----------------------------------------------------------------------------
(* The Simulator's events: the entry points main_cli calls, create events   *)
(* until MaxEmitted exist                                                   *)

InitTrack == Init

CommitTrk(k) ==
    /\ Len(trk.emitted) < MaxEmitted
    /\ trk' = k
    /\ UNCHANGED <<dsm, twin, evbus, calc, connVars, pipeVars>>

\* Simulator::start and Simulator::stop, the running_ flag
TrkStart == CommitTrk([trk EXCEPT !.running = TRUE])

TrkStop == CommitTrk([trk EXCEPT !.running = FALSE])

\* Simulator::tick
TrkTick ==
    \E percentage \in BatteryLevels, newPosition \in SUBSET {"office", "warehouse"},
       due \in BOOLEAN, routeEnds \in BOOLEAN :
        /\ percentage <= trk.battery
        /\ CommitTrk(Trk_tick(trk, percentage, newPosition, due, routeEnds))

\* Simulator::setIgnition
TrkSetIgnition == \E on \in BOOLEAN : CommitTrk(processIgnition(trk, on))

\* Simulator::setSpeed
TrkSetSpeed ==
    \E moving \in BOOLEAN, over \in BOOLEAN :
        /\ over => moving
        /\ CommitTrk(Trk_setSpeed(trk, moving, over))

\* Simulator::setBatteryPercentage
TrkSetBatteryPercentage ==
    \E percentage \in BatteryLevels : CommitTrk([trk EXCEPT !.battery = percentage])

\* Simulator::startDriving
TrkStartDriving ==
    CommitTrk(Trk_setSpeed(processIgnition(trk, TRUE), TRUE, FALSE))

\* Simulator::generateSpike(1)
TrkGenerateSpike ==
    \E type \in SpikeTypes : CommitTrk(generateSpike(trk, <<type>>))

NextTrack ==
    \/ TrkStart
    \/ TrkStop
    \/ TrkTick
    \/ TrkSetIgnition
    \/ TrkSetSpeed
    \/ TrkSetBatteryPercentage
    \/ TrkStartDriving
    \/ TrkGenerateSpike

SpecTrack == InitTrack /\ [][NextTrack]_vars

----------------------------------------------------------------------------
(* The Simulator's events in interactive mode: the main thread runs the     *)
(* tick loop while the input thread runs the commands, with nothing         *)
(* ordering their accesses to sequenceNumber_.  A heartbeat of the tick     *)
(* loop and a spike event of the input thread are created in two steps.     *)

\* checkHeartbeat in the tick loop reaches createBaseEvent
MainLoadsSequence ==
    /\ trk.running
    /\ trk.pend["main"] = ""
    /\ CommitTrk(loadSequence(trk, "main", "Heartbeat"))

\* generateSpike on the input thread reaches createBaseEvent
InputLoadsSequence ==
    /\ trk.pend["input"] = ""
    /\ \E type \in SpikeTypes : CommitTrk(loadSequence(trk, "input", type))

\* the thread finishes createBaseEvent and emits the event
ThreadStoresSequence ==
    \E t \in Threads :
        /\ trk.pend[t] # ""
        /\ trk' = storeSequence(trk, t)
        /\ UNCHANGED <<dsm, twin, evbus, calc, connVars, pipeVars>>

NextTrackThreads ==
    \/ TrkStart
    \/ TrkStop
    \/ MainLoadsSequence
    \/ InputLoadsSequence
    \/ ThreadStoresSequence

SpecTrackThreads == InitTrack /\ [][NextTrackThreads]_vars

----------------------------------------------------------------------------
(* domain::DeviceStateMachine under its inputs, a clock and the driver's    *)
(* tick                                                                     *)

InitDsm == Init

CommitDsm(d) ==
    /\ dsm' = d
    /\ UNCHANGED <<trk, twin, evbus, calc, connVars, pipeVars>>

DsmSetIgnition == \E on \in BOOLEAN : CommitDsm(Dsm_setIgnition(dsm, on))

DsmSetMotion == \E inMotion \in BOOLEAN : CommitDsm(Dsm_setMotion(dsm, inMotion))

DsmSetBatteryLevel ==
    \E percentage \in DsmLevels : CommitDsm(setBatteryLevel(dsm, percentage))

DsmSetConnectionStatus ==
    \E connected \in BOOLEAN : CommitDsm(setConnectionStatus(dsm, connected))

DsmTick == CommitDsm(Dsm_tick(dsm))

\* IClock::now moves on by a minute
ClockAdvance ==
    /\ dsm.motionStoppedTime >= 0
    /\ dsm.motionStoppedTime < PARKING_TIMEOUT
    /\ CommitDsm([dsm EXCEPT !.motionStoppedTime = @ + 1])

NextDsm ==
    \/ DsmSetIgnition
    \/ DsmSetMotion
    \/ DsmSetBatteryLevel
    \/ DsmSetConnectionStatus
    \/ DsmTick
    \/ ClockAdvance

\* the driver keeps ticking and time keeps passing
FairDsm == WF_vars(DsmTick) /\ WF_vars(ClockAdvance)

SpecDsm == InitDsm /\ [][NextDsm]_vars /\ FairDsm

----------------------------------------------------------------------------
(* domain::DeviceStateMachine and domain::TelemetryPipeline on one event   *)
(* bus: the machine publishes, the pipeline's handlers forward             *)

\* BatteryInfo::percentage as a default-constructed Event carries it
kEventBatteryPct == 100

\* the Event emitTrackerEvent builds: type, timestamp and extras are set,
\* the battery block keeps its member initialisers
TrackerEvent(eventType) == [type |-> eventType, pct |-> kEventBatteryPct]

\* eventBus_->publish(event) for the events one call of the machine emitted
RECURSIVE publishEmitted(_, _)
publishEmitted(p, emitted) ==
    IF emitted = <<>> THEN p
    ELSE publishEmitted(Bus_publish(p, TrackerEvent(Head(emitted))),
                        Tail(emitted))

CommitDevice(d) ==
    /\ bus.created < MaxEvents
    /\ dsm' = d
    /\ LET p == publishEmitted(CurPipe, d.emitted)
       IN  /\ pipe' = p.pipe
           /\ transport' = p.transport
           /\ bus' = p.bus
           /\ sent' = p.sent
    /\ UNCHANGED <<trk, twin, evbus, calc, connVars>>

DeviceSetIgnition == \E on \in BOOLEAN : CommitDevice(Dsm_setIgnition(dsm, on))

DeviceSetMotion ==
    \E inMotion \in BOOLEAN : CommitDevice(Dsm_setMotion(dsm, inMotion))

DeviceSetBatteryLevel ==
    \E percentage \in DsmLevels : CommitDevice(setBatteryLevel(dsm, percentage))

NextDevice ==
    \/ DeviceSetIgnition
    \/ DeviceSetMotion
    \/ DeviceSetBatteryLevel
    \/ PipeStart
    \/ PipeStop
    \/ PipeProcessEvents
    \/ BusProcessEvents
    \/ TransportSetConnected
    \/ PipeAdvance

SpecDevice == Init /\ [][NextDevice]_vars

----------------------------------------------------------------------------
(* TwinHandler under the calls of its owner, the messages of the hub, the   *)
(* connection of its MQTT client and a clock                                *)

InitTwin == Init

CommitTwin(t) ==
    /\ twin' = t
    /\ UNCHANGED <<trk, dsm, evbus, calc, connVars, pipeVars>>

\* the payloads of a twin response with status 200
TwinPayloads ==
    {[NoMessage EXCEPT !.valid = FALSE]}
    \cup {[NoMessage EXCEPT !.at = "none"]}
    \cup { [NoMessage EXCEPT !.at = at, !.desired = d] :
             at \in {"desired", "properties.desired"}, d \in Desired }

\* the hub answers a GET with 200 and the twin or with an error status, a
\* reported PATCH with 204 or with an error status
TwinResponses(request) ==
    IF request.purpose = "GET"
    THEN { [m EXCEPT !.status = 200, !.rid = request.rid] : m \in TwinPayloads }
         \cup {[NoMessage EXCEPT !.status = 400, !.rid = request.rid]}
    ELSE { [NoMessage EXCEPT !.status = st, !.rid = request.rid] : st \in {204, 400} }

\* the desired PATCH messages of the hub
TwinPatches ==
    {[NoMessage EXCEPT !.valid = FALSE]}
    \cup { [NoMessage EXCEPT !.at = "root", !.desired = d] : d \in Desired }

TwinClientConnects ==
    /\ ~twin.connected
    /\ CommitTwin([TwinCalled(twin, "connected", NoMessage) EXCEPT !.connected = TRUE])

TwinClientDisconnects ==
    /\ twin.connected
    /\ CommitTwin([TwinCalled(twin, "disconnected", NoMessage) EXCEPT
                       !.connected = FALSE, !.subscribed = {}])

TwinInitializeSubscriptions ==
    \E env \in SubscribeTwinEnvs :
        CommitTwin(Twin_initializeSubscriptions(
                       TwinCalled(twin, "initializeSubscriptions", NoMessage), env))

\* the owner requests the twin with request id "1"
TwinRequestFullTwin ==
    \E env \in PublishTwinEnvs :
        CommitTwin(Twin_requestFullTwin(
                       TwinCalled(twin, "requestFullTwin", NoMessage), "1", env))

TwinSendReportedAck ==
    \E env \in PublishTwinEnvs :
        CommitTwin(sendReportedAck(
                       TwinCalled(twin, "sendReportedAck", NoMessage), "2", env))

TwinResponseArrives ==
    /\ twin.connected
    /\ "res" \in twin.subscribed
    /\ \E request \in twin.inflight : \E message \in TwinResponses(request) :
       \E env \in MessageTwinEnvs(message) :
           CommitTwin(handleMqttMessage(
                          [TwinCalled(twin, "processTwinResponse", message) EXCEPT
                               !.inflight = @ \ {request}],
                          "res", message, env))

TwinPatchArrives ==
    /\ twin.connected
    /\ "desired" \in twin.subscribed
    /\ \E message \in TwinPatches : \E env \in MessageTwinEnvs(message) :
           CommitTwin(handleMqttMessage(
                          TwinCalled(twin, "processDesiredPatch", message),
                          "desired", message, env))

\* time passes while the hub owes a response
TwinClockAdvance ==
    /\ twin.inflight # {}
    /\ twin.waited < MaxWait
    /\ CommitTwin([twin EXCEPT !.waited = @ + 1])

NextTwin ==
    \/ TwinClientConnects
    \/ TwinClientDisconnects
    \/ TwinInitializeSubscriptions
    \/ TwinRequestFullTwin
    \/ TwinSendReportedAck
    \/ TwinResponseArrives
    \/ TwinPatchArrives
    \/ TwinClockAdvance

\* time keeps passing; nothing obliges the hub to answer
FairTwin == WF_vars(TwinClockAdvance)

SpecTwin == InitTwin /\ [][NextTwin]_vars /\ FairTwin

----------------------------------------------------------------------------
(* domain::EventBus under subscribe, unsubscribe, publish and processEvents *)

InitEventBus == Init

CommitEventBus(b, op) ==
    /\ evbus' = [b EXCEPT !.op = op]
    /\ UNCHANGED <<trk, dsm, twin, calc, connVars, pipeVars>>

EventBusSubscribe ==
    /\ evbus.subscriptions < MaxSubscriptions
    /\ \E eventType \in BusTypes, handler \in BusHandlers :
           CommitEventBus(EventBus_subscribe(evbus, eventType, handler), "subscribe")

EventBusUnsubscribe ==
    \E eventType \in BusTypes :
        /\ evbus.handlers[eventType] # <<>>
        /\ CommitEventBus(EventBus_unsubscribe(evbus, eventType), "unsubscribe")

EventBusPublish ==
    /\ evbus.published < MaxBusEvents
    /\ \E eventType \in BusTypes :
           CommitEventBus(EventBus_publish(evbus, eventType, "producer"), "publish")

EventBusProcessEvents ==
    CommitEventBus(EventBus_processEvents(evbus), "processEvents")

NextEventBus ==
    \/ EventBusSubscribe
    \/ EventBusUnsubscribe
    \/ EventBusPublish
    \/ EventBusProcessEvents

SpecEventBus == InitEventBus /\ [][NextEventBus]_vars

----------------------------------------------------------------------------
(* The retry policy of DefaultPolicyEngine, called with attempt counts from *)
(* 1 to MaxAttemptCount                                                     *)

InitPolicy == Init

CommitCalc(c) ==
    /\ calc' = c
    /\ UNCHANGED <<trk, dsm, twin, evbus, connVars, pipeVars>>

\* retryPolicy.getBackoffDelay(attemptCount) and
\* retryPolicy.getBackoffDelay(other), as the test compares two delays
PolicyGetBackoffDelay ==
    \E attemptCount \in 1..MaxAttemptCount, other \in 1..MaxAttemptCount :
        CommitCalc([NewCalc EXCEPT !.op = "getBackoffDelay",
                                   !.attemptCount = attemptCount,
                                   !.other = other,
                                   !.delay = getBackoffDelay(attemptCount),
                                   !.otherDelay = getBackoffDelay(other)])

\* retryPolicy.shouldRetry(attemptCount)
PolicyShouldRetry ==
    \E attemptCount \in 1..MaxAttemptCount :
        CommitCalc([NewCalc EXCEPT !.op = "shouldRetry",
                                   !.attemptCount = attemptCount,
                                   !.retry = shouldRetry(attemptCount)])

NextPolicy ==
    \/ PolicyGetBackoffDelay
    \/ PolicyShouldRetry

SpecPolicy == InitPolicy /\ [][NextPolicy]_vars

----------------------------------------------------------------------------
(* Properties of the orchestrator and the provisioning engine *)

Terminal == {"Idle", "Completed", "Failed"}
OperatorCalls ==
    {"connectToIotHub", "disconnect", "publish", "subscribe", "unsubscribe"}

\* C1: every entry into Connected is made from ConnectingToHub, every entry
\* into ConnectingToHub from Provisioning and every entry into Provisioning
\* from Disconnected.
C1_ConnectedOnlyAlongThePath ==
    [][/\ (mgr'.state = "Connected" /\ mgr.state # "Connected")
            => mgr.state = "ConnectingToHub"
       /\ (mgr'.state = "ConnectingToHub" /\ mgr.state # "ConnectingToHub")
            => mgr.state = "Provisioning"
       /\ (mgr'.state = "Provisioning" /\ mgr.state # "Provisioning")
            => mgr.state = "Disconnected"]_vars

\* C2: a connectToIotHub call made in a state other than Disconnected, or
\* with a credential file missing, invokes the callback passed to it with
\* failure, and leaves the orchestrator's fields, the provisioning engine
\* and both transports as they were, starting no transport operation.
C2_RejectedConnectChangesNothing ==
    [][(/\ out'.op = "connectToIotHub"
        /\ (mgr.state # "Disconnected" \/ ~out'.arg.credentialsOk))
       => /\ mgr' = mgr
          /\ dps' = dps
          /\ provClient' = provClient
          /\ hubClient' = hubClient
          /\ out'.prov = <<>>
          /\ out'.hub = <<>>
          /\ out'.cbs =
                IF out'.arg.callback = "none" THEN <<>>
                ELSE <<[cb |-> out'.arg.callback, connected |-> FALSE]>>]_vars

\* C2 witness: a connect passing cb1 was rejected while Connected with cb2
\* stored, and cb1 was told of the failure.
C2_Witness ==
    /\ out.op = "connectToIotHub"
    /\ mgr.state = "Connected"
    /\ mgr.connectionCallback = "cb2"
    /\ out.cbs = <<[cb |-> "cb1", connected |-> FALSE]>>

\* C3: a publish, subscribe or unsubscribe made in a state other than
\* Connected returns false and issues no operation on the hub transport.
C3_HubOperationsOnlyWhenConnected ==
    (out.op \in {"publish", "subscribe", "unsubscribe"} /\ mgr.state # "Connected")
        => (out.ret = "false" /\ out.hub = <<>> /\ hubClient.queue = <<>>)

\* C3 witness: a publish was refused in Disconnected although the hub
\* client itself still reported connected.
C3_Witness ==
    /\ out.op = "publish"
    /\ mgr.state = "Disconnected"
    /\ hubClient.connected
    /\ out.ret = "false"

\* C4: the completion callback of a provisioning run is never invoked twice,
\* and it has been invoked once whenever the engine is terminal.
C4_CompletionExactlyOnce ==
    /\ Len(out.completions) <= 1
    /\ dps.alive =>
         /\ dps.fired <= 1
         /\ (dps.state \in {"Completed", "Failed"} => dps.fired = 1)

\* C5: a processEvents call made while the engine is not terminal and more
\* than its timeout has elapsed since the start completes the run with a
\* failure, releases the engine, asks the provisioning transport to
\* disconnect and leaves the orchestrator Failed, its callback told so.
C5_DeadlineEndsProvisioning ==
    [][(/\ out'.op = "processEvents"
        /\ dps.alive
        /\ dps.state \notin Terminal
        /\ dps.sinceStart > dps.timeout)
       => /\ out'.completions = <<FALSE>>
          /\ ~dps'.alive
          /\ mgr'.state = "Failed"
          /\ out'.prov = <<"disconnect">>
          /\ (provClient.connected => provClient'.disconnecting)
          /\ out'.cbs =
                IF mgr.connectionCallback = "none" THEN <<>>
                ELSE <<[cb |-> mgr.connectionCallback, connected |-> FALSE]>>]_vars

\* C6: disconnect() while the provisioning engine is in flight reports the
\* failure through the completion callback, marks the engine Failed and
\* asks the provisioning transport to disconnect.
C6_CancelReportsFailure ==
    [][(out'.op = "disconnect" /\ dps.alive /\ dps.state \notin Terminal)
       => /\ out'.completions = <<FALSE>>
          /\ (dps'.alive => dps'.state = "Failed")
          /\ out'.prov = <<"disconnect">>]_vars

\* C7: in Failed, only an operator call changes the orchestrator's state.
C7_FailedIsTerminal ==
    [][(mgr.state = "Failed" /\ out'.op \notin OperatorCalls)
       => mgr'.state = "Failed"]_vars

----------------------------------------------------------------------------
(* Properties of the Simulator's connection handling *)

\* C8: whenever the connected hub transport reports a disconnection to a
\* running simulator, the device is eventually Connected again (orchestrator
\* Connected and the simulator's connected flag set), unless the simulator
\* is stopped.
C8_ReconnectAfterHubLoss ==
    (/\ out.op = "hub.connectionLost"
     /\ out.cbs = <<[cb |-> "sim", connected |-> FALSE]>>
     /\ sim.running
     /\ ~crashed)
    ~> (\/ mgr.state = "Connected" /\ sim.connected
        \/ ~sim.running
        \/ crashed)

\* the subscriptions a hub connection has to issue
RequiredSubscriptions ==
    {"subscribe:c2d"}
    \cup (IF sim.twin THEN {"subscribe:twinRes", "subscribe:twinPatch"} ELSE {})

\* C9: when the hub transport of the simulator connects, the C2D
\* subscription and, with a twin adapter set, both twin subscriptions are
\* issued on the transport before the first message of the offline queue
\* is published.
C9_SubscriptionsBeforeQueuedPublishes ==
    out.op = "mqtt.onConnected" =>
        \A j \in DOMAIN out.mqtt :
            out.mqtt[j] = "flush:event" =>
                \A sub \in RequiredSubscriptions :
                    \E i \in 1..(j - 1) : out.mqtt[i] = sub

----------------------------------------------------------------------------
(* Properties of the telemetry pipeline *)

\* C10: the transport accepts the publishes of the pipeline in hand-over
\* order: a message is never accepted after one that was handed to the
\* pipeline later.
C10_PerTopicFifo ==
    \A i, j \in DOMAIN sent : i < j => sent[i] < sent[j]

\* C11: the pipeline's retry queue never holds more than the queue capacity
\* (100 messages), whatever events, ticks and disconnections occur
C11_RetryQueueBounded == Len(pipe.retryQueue) <= kMaxOfflineQueueSize

\* the numbers sendTelemetry can give to messages
MessageIds == 1 .. ((MaxEvents + 1) * MaxHandlers)

\* message id waits in retryQueue_
InRetryQueue(id) ==
    \E i \in DOMAIN pipe.retryQueue : pipe.retryQueue[i].id = id

\* C12 as stated: if the transport is eventually connected for good, every
\* message waiting in the retry queue eventually leaves it (accepted by the
\* transport or dropped by the retry policy)
C12_QueuedEventuallyLeaves ==
    (<>[]transport.connected) =>
        \A id \in MessageIds : (InRetryQueue(id) ~> ~InRetryQueue(id))

\* C12, amended: if the transport is eventually connected for good and the
\* pipeline eventually running for good, every message waiting in the retry
\* queue eventually leaves it
C12_QueuedEventuallyLeavesWhileRunning ==
    (<>[](transport.connected /\ pipe.running)) =>
        \A id \in MessageIds : (InRetryQueue(id) ~> ~InRetryQueue(id))

\* a message left the retry queue without being accepted: the retry policy
\* dropped it while the pipeline ran on a connected transport
C12_Witness ==
    /\ pipe.running
    /\ transport.connected
    /\ pipe.handed >= 1
    /\ pipe.retryQueue = <<>>
    /\ Len(sent) < pipe.handed

\* C13: no message crosses the transport boundary twice: the accepted
\* publishes, those of the pipeline and those of the MQTT client's flush of
\* its offline queue together, name each message at most once
C13_AtMostOnceAfterSuccess ==
    \A i, j \in DOMAIN sent : i # j => sent[i] # sent[j]

----------------------------------------------------------------------------
(* Properties of the Simulator's events *)

\* C14: the n-th event the Simulator emits carries sequence = n: the
\* sequence values start at 1 and rise by exactly 1, without gaps or repeats
C14_SequenceIsPosition ==
    \A n \in DOMAIN trk.emitted : trk.emitted[n].sequence = n

\* the GeofenceEnter and GeofenceExit events emitted for a fence, in order
GeofenceEvents(id) ==
    SelectSeq(trk.emitted,
              LAMBDA e : e.fence = id /\ e.type \in {"GeofenceEnter", "GeofenceExit"})

\* for every fence the events alternate, starting with GeofenceEnter
Alternating ==
    \A id \in {"office", "warehouse"} :
        \A i \in DOMAIN GeofenceEvents(id) :
            GeofenceEvents(id)[i].type =
                (IF i % 2 = 1 THEN "GeofenceEnter" ELSE "GeofenceExit")

\* a step emits a geofence event for a fence only when the position it
\* checks lies in the fence and the position of the previous tick did not,
\* or the other way round
OnlyOnChange ==
    \A n \in (Len(trk.emitted) + 1) .. Len(trk'.emitted) :
        LET e == trk'.emitted[n]
        IN  e.type \in {"GeofenceEnter", "GeofenceExit"} =>
                /\ trk'.tickPosition = trk'.position
                /\ (e.fence \in trk'.position) # (e.fence \in trk.tickPosition)
                /\ (e.type = "GeofenceEnter") <=> (e.fence \in trk'.position)

\* C20: for each geofence id the Simulator emits GeofenceEnter(id) and
\* GeofenceExit(id) strictly alternating, starting with Enter, and emits one
\* only on a tick where the position's membership in that fence differs
\* from the membership at the previous tick
C20_GeofenceEdges == []Alternating /\ [][OnlyOnChange]_vars

\* the office fence was entered, left and entered again
C20_Witness ==
    /\ Len(GeofenceEvents("office")) >= 3
    /\ "office" \in trk.position

----------------------------------------------------------------------------
(* Properties of domain::DeviceStateMachine *)

\* the LowBattery events the last call published
LowBatteryEvents ==
    Cardinality({i \in DOMAIN dsm.emitted : dsm.emitted[i] = "LowBattery"})

\* C15: the low-battery latch at 20 %: a setBatteryLevel that takes the
\* level from 20 % or more to below 20 % publishes exactly one LowBattery
\* event and, from Driving, leaves the machine in LowBattery; any other
\* setBatteryLevel publishes none; one that takes the level back to 20 % or
\* more with ignition on and motion true leaves the machine in Driving
C15_LowBatteryLatch ==
    (dsm.op = "setBatteryLevel" /\ dsm.before.currentState # "Offline") =>
        LET wasLow == dsm.before.batteryPercentage < 20
            isLow == dsm.batteryPercentage < 20
        IN  /\ LowBatteryEvents = (IF ~wasLow /\ isLow THEN 1 ELSE 0)
            /\ (dsm.before.currentState = "Driving" /\ ~wasLow /\ isLow)
                   => dsm.currentState = "LowBattery"
            /\ (dsm.before.currentState = "LowBattery" /\ wasLow /\ ~isLow
                  /\ dsm.ignitionOn /\ dsm.inMotion)
                   => dsm.currentState = "Driving"

\* the inputs of the transition table, read off the last call
IgnitionOnInput == dsm.op = "setIgnition(true)"
IgnitionOffInput == dsm.op = "setIgnition(false)"
MotionInput == dsm.op = "setMotion(true)"
MotionStopInput == dsm.op = "setMotion(false)"
CrossingDown ==
    /\ dsm.op = "setBatteryLevel"
    /\ dsm.before.batteryPercentage >= LOW_BATTERY_THRESHOLD
    /\ dsm.batteryPercentage < LOW_BATTERY_THRESHOLD
CrossingUp ==
    /\ dsm.op = "setBatteryLevel"
    /\ dsm.before.batteryPercentage < LOW_BATTERY_THRESHOLD
    /\ dsm.batteryPercentage >= LOW_BATTERY_THRESHOLD
ConnectionLostInput ==
    dsm.op = "setConnectionStatus(false)" /\ dsm.before.connected
ConnectionRestoredInput ==
    dsm.op = "setConnectionStatus(true)" /\ ~dsm.before.connected
TimerExpiryInput ==
    dsm.op = "tick" /\ dsm.before.motionStoppedTime >= PARKING_TIMEOUT

\* the state ignition and motion determine: Driving with both, Parked with
\* one of them, Idle with neither
ByIgnitionAndMotion ==
    IF dsm.ignitionOn /\ dsm.inMotion THEN "Driving"
    ELSE IF dsm.ignitionOn \/ dsm.inMotion THEN "Parked"
    ELSE "Idle"

\* the state the listed rows of the table lead to from the state the last
\* call began in, "" when no row is listed for the pair
ListedState ==
    LET from == dsm.before.currentState
    IN  CASE from = "Idle" /\ IgnitionOnInput -> "Driving"
          [] from = "Idle" /\ ConnectionLostInput -> "Offline"
          [] from = "Driving" /\ (IgnitionOffInput \/ MotionStopInput) -> "Parked"
          [] from = "Parked" /\ (MotionInput \/ IgnitionOnInput) -> "Driving"
          [] from \in {"Idle", "Driving", "Parked"} /\ CrossingDown -> "LowBattery"
          [] from = "Offline" /\ ConnectionRestoredInput ->
                 IF dsm.batteryPercentage < LOW_BATTERY_THRESHOLD
                 THEN "LowBattery" ELSE ByIgnitionAndMotion
          [] OTHER -> ""

\* C16 as stated: the listed rows lead to the listed states and every other
\* (state, input) pair leaves the state unchanged
C16_TransitionTable ==
    dsm.op # "" =>
        dsm.currentState = (IF ListedState # "" THEN ListedState
                            ELSE dsm.before.currentState)

\* C16: the listed rows lead to the listed states; besides them,
\* connection-lost leads to Offline from Driving, Parked and LowBattery, the
\* expiry of the parking timer leads from Parked to Idle, an upward battery
\* crossing leads from LowBattery to Driving or Idle; every other pair
\* leaves the state unchanged
C16_TransitionTableWithOtherRows ==
    dsm.op # "" =>
        LET from == dsm.before.currentState
        IN  IF ListedState # "" THEN dsm.currentState = ListedState
            ELSE IF from \in {"Driving", "Parked", "LowBattery"} /\ ConnectionLostInput
            THEN dsm.currentState = "Offline"
            ELSE IF from = "Parked" /\ TimerExpiryInput
            THEN dsm.currentState = "Idle"
            ELSE IF from = "LowBattery" /\ CrossingUp
            THEN dsm.currentState \in {"Driving", "Idle"}
            ELSE dsm.currentState = from

\* a connection restored with the battery low and the ignition on
C16_Witness ==
    /\ dsm.before.currentState = "Offline"
    /\ ConnectionRestoredInput
    /\ dsm.batteryPercentage < LOW_BATTERY_THRESHOLD
    /\ dsm.ignitionOn
    /\ dsm.currentState = "LowBattery"

\* C17: the machine does not stay in Parked for ever once the inputs have
\* stopped arriving and only the driver's ticks go on: the parking timer
\* expires and a tick takes the machine to Idle
C17_ParkedBecomesIdle ==
    []<>(dsm.currentState # "Parked" \/ dsm.op # "tick")

\* the same for a machine whose parking timer is running
ParkedWithTimerBecomesIdle ==
    []<>(dsm.currentState # "Parked" \/ dsm.op # "tick"
           \/ dsm.motionStoppedTime = -1)

\* C18: a battery that rises above the threshold while the machine is in
\* LowBattery leaves it in the state its ignition and motion determine, the
\* one a restored connection would lead to: Driving only with ignition on
\* and motion true
C18_RecoveryByIgnitionAndMotion ==
    (dsm.before.currentState = "LowBattery" /\ CrossingUp) =>
        /\ dsm.currentState = ByIgnitionAndMotion
        /\ dsm.currentState = Reconstituted(dsm)

\* the last call published an event of one of the types
Published(types) == \E i \in DOMAIN dsm.emitted : dsm.emitted[i] \in types

\* C19: the last call published IgnitionOn (IgnitionOff) exactly when it
\* switched the ignition on (off), MotionStart (MotionStop) exactly when it
\* switched the motion on (off); a setIgnition or setMotion that repeats the
\* current value changes no state and publishes nothing; no call publishes
\* more than one event
C19_EdgeOnlyEvents ==
    dsm.op # "" =>
        /\ Published({"IgnitionOn"})
               <=> (IgnitionOnInput /\ ~dsm.before.ignitionOn)
        /\ Published({"IgnitionOff"})
               <=> (IgnitionOffInput /\ dsm.before.ignitionOn)
        /\ Published({"MotionStart"})
               <=> (MotionInput /\ ~dsm.before.inMotion)
        /\ Published({"MotionStop"})
               <=> (MotionStopInput /\ dsm.before.inMotion)
        /\ ((IgnitionOnInput \/ IgnitionOffInput)
              /\ dsm.before.ignitionOn = dsm.ignitionOn)
               => (dsm.currentState = dsm.before.currentState /\ dsm.emitted = <<>>)
        /\ ((MotionInput \/ MotionStopInput)
              /\ dsm.before.inMotion = dsm.inMotion)
               => (dsm.currentState = dsm.before.currentState /\ dsm.emitted = <<>>)
        /\ Len(dsm.emitted) <= 1

\* no call publishes more than one event
AtMostOneEvent == Len(dsm.emitted) <= 1

----------------------------------------------------------------------------
(* Properties of the Simulator's reconnection budget *)

\* the entry point that ends in the primed state started a connect on the
\* Simulator's client
ConnectStarted == \E i \in DOMAIN out'.mqtt : out'.mqtt[i] = "connect"

\* a tick starts a connect only while the budget lasts, and counts it; with
\* the budget used up only the operator's start() starts a connect, and the
\* tick that finds it used up stops the reconnection; the counter falls
\* only to 0 and only in the callback of a successful connection
BudgetStep ==
    /\ (out'.op = "sim.tick" /\ ConnectStarted) =>
           /\ sim.reconnectAttempts < MAX_RECONNECT_ATTEMPTS
           /\ sim'.reconnectAttempts = sim.reconnectAttempts + 1
    /\ (sim.reconnectAttempts = MAX_RECONNECT_ATTEMPTS /\ ConnectStarted) =>
           out'.op = "sim.start"
    /\ (/\ out'.op = "sim.tick"
        /\ sim.running /\ sim.shouldReconnect
        /\ sim.reconnectAttempts = MAX_RECONNECT_ATTEMPTS
        /\ sim.sinceAttempt >= kMaxReconnectDelay) =>
           ~sim'.shouldReconnect
    /\ sim'.reconnectAttempts < sim.reconnectAttempts =>
           /\ sim'.reconnectAttempts = 0
           /\ out'.op \in {"mqtt.onConnected", "hub.onConnected"}
           /\ sim'.connected

\* C21: at most MAX_RECONNECT_ATTEMPTS reconnection attempts are made
\* without a successful connection in between; when the budget is used up
\* no further attempt is made, the reconnection is given up and only the
\* operator's start() connects again; only a successful connection resets
\* the attempt counter to 0
C21_ReconnectBudget ==
    /\ [](sim.reconnectAttempts <= MAX_RECONNECT_ATTEMPTS)
    /\ [][BudgetStep]_vars

\* a tick found the budget used up and gave the reconnection up
C21_Witness ==
    /\ out.op = "sim.tick"
    /\ sim.running
    /\ sim.reconnectAttempts = MAX_RECONNECT_ATTEMPTS
    /\ ~sim.shouldReconnect
    /\ ~sim.connected


----------------------------------------------------------------------------
(* Properties of the twin adapter *)

\* the last entry point was a twin message whose desired object was applied
\* and written
AppliedDesired ==
    /\ twin.op \in {"processTwinResponse", "processDesiredPatch"}
    /\ twin.result.status = "Success"

\* the version a desired object carries: "$version", else
\* "config"."config_version", else 0 for none
CarriedVersion(desired) ==
    IF desired.version # 0 THEN desired.version ELSE desired.config_version

ReportedPublishes ==
    { i \in DOMAIN twin.log :
        twin.log[i].e = "publish" /\ twin.log[i].a = "reported" }

SuccessfulApplies ==
    { i \in DOMAIN twin.log :
        twin.log[i].e = "apply" /\ twin.log[i].a = "Success" }

\* the last entry point was a twin response with status 200 whose payload
\* holds a non-empty desired object, at "desired" or at "properties.desired"
ResponseWithDesired ==
    /\ twin.op = "processTwinResponse"
    /\ twin.message.status = 200
    /\ twin.message.valid
    /\ twin.message.at \in {"desired", "properties.desired"}
    /\ ~empty(twin.message.desired)

\* C23: on a status-200 twin response with a non-empty desired object the
\* adapter applies the object and, once the apply has succeeded, hands the
\* MQTT client exactly one reported PATCH, whose request id differs from the
\* request id of the GET the response answers; without a successful apply
\* before it no reported PATCH is published by a message handler
C23_ApplyThenAcknowledge ==
    /\ ResponseWithDesired =>
           /\ \E i \in DOMAIN twin.log : twin.log[i].e = "apply"
           /\ twin.result.status = "Success" =>
                  /\ Cardinality(ReportedPublishes) = 1
                  /\ \A i \in ReportedPublishes : twin.log[i].b # twin.message.rid
    /\ twin.op \in {"processTwinResponse", "processDesiredPatch"} =>
           \A i \in ReportedPublishes : \E j \in SuccessfulApplies : j < i

C23_Witness ==
    /\ ResponseWithDesired
    /\ twin.message.at = "properties.desired"
    /\ twin.message.rid = "1"
    /\ twin.log[1].e = "apply" /\ twin.log[1].a = "Success"
    /\ twin.log[2] = [e |-> "publish", a |-> "reported", b |-> "2", c |-> TRUE]
    /\ Cardinality(ReportedPublishes) = 1

\* the last entry point was a twin response with status 200 or a desired
\* PATCH whose payload is not valid JSON
MalformedPayload ==
    /\ \/ twin.op = "processTwinResponse" /\ twin.message.status = 200
       \/ twin.op = "processDesiredPatch"
    /\ ~twin.message.valid

ErrorRecordPersisted ==
    \/ twin.errorFile
    \/ \E i \in DOMAIN twin.log :
           twin.log[i].e = "errorFile" /\ twin.log[i].a = "failed"

Surfaced(status) ==
    \E i \in DOMAIN twin.log :
        twin.log[i].e = "response" /\ twin.log[i].a = status

\* C24: on a status-200 twin response or a desired PATCH whose payload is
\* not valid JSON, the error record is written (unless the error file cannot
\* be opened), JsonParseError reaches the response callback, the applied
\* configuration version is unchanged and no reported PATCH is published
C24_MalformedPayload ==
    MalformedPayload =>
        /\ ErrorRecordPersisted
        /\ Surfaced("JsonParseError")
        /\ getConfigVersion(twin) = twin.before.currentConfigVersion
        /\ ReportedPublishes = {}

\* what the code does on a malformed payload: as C24, but only a twin
\* response reaches the response callback
MalformedPayloadDropped ==
    MalformedPayload =>
        /\ ErrorRecordPersisted
        /\ Surfaced("JsonParseError") <=> twin.op = "processTwinResponse"
        /\ getConfigVersion(twin) = twin.before.currentConfigVersion
        /\ ReportedPublishes = {}

\* the last entry point was a twin message whose desired object could not
\* be written to the configuration file
StorageFailure ==
    /\ twin.op \in {"processTwinResponse", "processDesiredPatch"}
    /\ twin.result.status = "FileWriteError"

\* the owner was told: through the response callback, or (desired PATCH)
\* through the configuration callback
Reported(status) ==
    \E i \in DOMAIN twin.log :
        twin.log[i].e \in {"response", "config"} /\ twin.log[i].a = status

\* C25: when the configuration file cannot be written, FileWriteError is
\* reported, no reported PATCH is published and getConfigVersion() is still
\* the version held before the message
C25_StorageFailureKeepsVersion ==
    StorageFailure =>
        /\ Reported("FileWriteError")
        /\ ReportedPublishes = {}
        /\ getConfigVersion(twin) = twin.before.currentConfigVersion

\* what the code does on a storage failure: the version of the document
\* that was not written has become the current one
StorageFailureTakesVersion ==
    StorageFailure =>
        /\ Reported("FileWriteError")
        /\ ReportedPublishes = {}
        /\ getConfigVersion(twin) = configVersionOf(twin.message.desired)
        /\ twin.configFile = twin.before.configFile

\* a document was written to a configuration file that held another
\* version, and the result says that nothing changed
WrittenAsUnchanged ==
    /\ AppliedDesired
    /\ ~twin.result.hasChanges
    /\ twin.before.configFile # twin.result.configVersion

\* the last entry point was a request made while isInitialized() was false
UninitializedRequest(op) ==
    twin.op = op /\ ~twin.before.initialized

\* C26: while isInitialized() is false, requestFullTwin and sendReportedAck
\* both return false and hand nothing to the MQTT client
C26_UninitializedRejects ==
    (UninitializedRequest("requestFullTwin")
         \/ UninitializedRequest("sendReportedAck")) =>
        /\ ~twin.ret
        /\ twin.log = <<>>

\* what the code does: requestFullTwin is rejected; sendReportedAck looks at
\* the connection only
UninitializedGetRejected ==
    /\ UninitializedRequest("requestFullTwin") => (~twin.ret /\ twin.log = <<>>)
    /\ (twin.op = "sendReportedAck" /\ ~twin.connected) =>
           (~twin.ret /\ twin.log = <<>>)

\* the requests the adapter issues: the GET of the owner and the two
\* acknowledgements of the message handlers
TwinRequests ==
    { [rid |-> "1", purpose |-> "GET"], [rid |-> "2", purpose |-> "reported"],
      [rid |-> "3", purpose |-> "reported"] }

\* an error reached the response callback
ErrorSurfaced ==
    \E i \in DOMAIN twin.log :
        twin.log[i].e = "response" /\ twin.log[i].a # "Success"

\* C27: every request the adapter has issued is followed, while time keeps
\* passing, by its response or by an error surfaced through the response
\* callback: no request stays unanswered and unreported for ever
C27_RequestTimesOut ==
    \A request \in TwinRequests :
        (request \in twin.inflight /\ twin.waited = MaxWait)
            ~> (request \notin twin.inflight \/ ErrorSurfaced)

\* what the code does: whatever the time waited, nothing but a message of
\* the hub makes the adapter call the response callback
OnlyMessagesSurface ==
    (Surfaced("Success") \/ ErrorSurfaced) => twin.op = "processTwinResponse"

----------------------------------------------------------------------------
(* Properties of DpsConnectionManager::disconnect *)

\* the orchestrator after disconnect(): Disconnected, nothing assigned, no
\* provisioning in flight, the hub client not connected or on its way down
Disconnected(s) ==
    /\ s.mgr.state = "Disconnected"
    /\ s.mgr.assignedHub = ""
    /\ s.mgr.deviceId = ""
    /\ s.dps.alive => s.dps.state \in {"Idle", "Completed", "Failed"}
    /\ s.hubClient.connected => s.hubClient.disconnecting

\* a second disconnect() right after the first leaves every field as it is
DisconnectAgain ==
    (out.op = "disconnect" /\ out'.op = "disconnect") =>
        /\ mgr' = mgr
        /\ dps' = dps
        /\ provClient' = provClient
        /\ hubClient' = hubClient

----------------------------------------------------------------------------
(* Properties of Simulator::stop and Simulator::start *)

\* the step handed an event to a transport, or put one on the offline queue
EventPublished ==
    \/ \E i \in DOMAIN out'.mqtt : out'.mqtt[i] = "publish:event"
    \/ \E i \in DOMAIN out'.hub : out'.hub[i] = "publish"
    \/ Len(mqttClient'.queue) > Len(mqttClient.queue)
    \/ Len(hubClient'.queue) > Len(hubClient.queue)

\* a step of a stopped Simulator that does not start it
StoppedStep == ~sim.running /\ ~sim'.running

\* the connection the Simulator uses is down or on its way down
ConnectionClosed ==
    /\ mqttClient.connected => mqttClient.disconnecting
    /\ sim.dps => (hubClient.connected => hubClient.disconnecting)

StartWhileRunning ==
    (sim.running /\ out'.op = "sim.start") =>
        UNCHANGED <<mgr, dps, provClient, hubClient, sim, mqttClient>>

\* C29: between stop() and the next start() no step publishes an event,
\* whether it is a tick, an input or a transport callback; stop() leaves the
\* connection in use closed; and start() on a running Simulator changes
\* nothing
C29_StoppedIsSilent ==
    /\ [][StoppedStep => ~EventPublished]_vars
    /\ [](out.op = "sim.stop" => ConnectionClosed)
    /\ [][StartWhileRunning]_vars

\* what the code does: a stopped Simulator ignores its ticks, stop() closes
\* the Simulator's own client, and start() on a running Simulator changes
\* nothing
StoppedIgnoresTicks ==
    /\ [][(StoppedStep /\ out'.op = "sim.tick") =>
              (~EventPublished /\ UNCHANGED <<sim, mqttClient, hubClient>>)]_vars
    /\ [](out.op = "sim.stop" => (mqttClient.connected => mqttClient.disconnecting))
    /\ [][StartWhileRunning]_vars

----------------------------------------------------------------------------
(* Properties of domain::EventBus *)

\* the handlers called with event number id, in call order
CalledWith(id) ==
    LET cs == SelectSeq(evbus.calls, LAMBDA c : c.event = id)
    IN  [i \in DOMAIN cs |-> cs[i].handler]

\* C30: the events leave the queue in publication order; each is handed
\* exactly once to each handler subscribed to its type, to no handler
\* subscribed to another type, and all handlers of one event are called
\* before any handler of the next; processEvents returns with the queue
\* empty, the events its handlers published included; and a processEvents
\* call made by a handler dispatches nothing
C30_EventBusDispatch ==
    /\ \A i \in DOMAIN evbus.drained : evbus.drained[i].event = i
    /\ \A i \in DOMAIN evbus.eventQueue :
           evbus.eventQueue[i].id = Len(evbus.drained) + i
    /\ Len(evbus.drained) + Len(evbus.eventQueue) = evbus.published
    /\ \A i \in DOMAIN evbus.drained :
           CalledWith(i) = evbus.drained[i].subscribed
    /\ \A i \in DOMAIN evbus.calls :
           evbus.calls[i].subscribedTo = evbus.calls[i].eventType
    /\ \A i, j \in DOMAIN evbus.calls :
           i < j => evbus.calls[i].event <= evbus.calls[j].event
    /\ evbus.op = "processEvents" => evbus.eventQueue = <<>>
    /\ ~evbus.processing

\* a drain of two events with two handlers on the first one's type, the
\* first of which called processEvents, and with an event that a handler
\* published
C30_Witness ==
    /\ evbus.op = "processEvents"
    /\ Len(evbus.drained) = MaxBusEvents
    /\ Len(evbus.drained[1].subscribed) = 2
    /\ evbus.calls[1].does = "processEvents"
    /\ evbus.calls[2].event = 1
    /\ \E i \in DOMAIN evbus.calls : evbus.calls[i].does = "publish"
    /\ evbus.eventQueue = <<>>

----------------------------------------------------------------------------
(* Properties of ExponentialBackoffRetryPolicy *)

\* the part of C31 that does not name the cap: non-decreasing delays, a
\* longer delay for attempt 2 than for attempt 1, shouldRetry(1), and no
\* retry from the maximum number of attempts on
BackoffGrowsRetriesEnd ==
    /\ calc.op = "getBackoffDelay" =>
           /\ calc.attemptCount <= calc.other => calc.delay <= calc.otherDelay
           /\ (calc.attemptCount = 1 /\ calc.other = 2) =>
                  calc.delay < calc.otherDelay
    /\ calc.op = "shouldRetry" =>
           /\ calc.attemptCount = 1 => calc.retry
           /\ calc.attemptCount >= kMaxAttempts => ~calc.retry

\* C31: getBackoffDelay is non-decreasing in the attempt count, strictly
\* increasing from attempt 1 to attempt 2 and never above 60 s; shouldRetry
\* is true for 1 and false from the maximum number of attempts on
C31_RetryPolicy ==
    /\ BackoffGrowsRetriesEnd
    /\ calc.op = "getBackoffDelay" => calc.delay <= 60 * 1000

\* C31 with the cap the policy is constructed with: getBackoffDelay never
\* exceeds maxDelay, 5 minutes
C31_RetryPolicyFiveMinuteCap ==
    /\ BackoffGrowsRetriesEnd
    /\ calc.op = "getBackoffDelay" => calc.delay <= kMaxDelayMs

\* the cap at work: the tenth delay would be 512 s and is 300 s
C31_Witness ==
    /\ calc.op = "getBackoffDelay"
    /\ calc.attemptCount = 9 /\ calc.other = 10
    /\ calc.delay = 256 * 1000
    /\ calc.otherDelay = kMaxDelayMs

----------------------------------------------------------------------------
(* Properties of the Simulator's reconnect backoff *)

\* the delays the claim lists for attempts 0, 1, 2, ..., seconds
ListedDelay(k) ==
    IF k < 6 THEN <<1, 2, 4, 8, 16, 32>>[k + 1] ELSE 60

\* the delay is min(2^k, 60) seconds, non-decreasing in k and at most 60
BackoffTable ==
    \A k \in 0..MAX_RECONNECT_ATTEMPTS :
        /\ reconnectDelay(k) = ListedDelay(k)
        /\ reconnectDelay(k) <= 60
        /\ \A j \in 0..k : reconnectDelay(j) <= reconnectDelay(k)

\* a tick starts a connect only when the time since the previous attempt
\* (or since the loss of the connection) has reached the delay of the
\* current attempt count
ReconnectWaits ==
    (out'.op = "sim.tick" /\ ConnectStarted) =>
        sim.sinceAttempt >= ListedDelay(sim.reconnectAttempts)

\* C32: the delay before reconnect attempt k is min(2^k, 60) s, that is 1,
\* 2, 4, 8, 16, 32, 60, 60, ...: non-decreasing and at most 60 s; and no
\* reconnect attempt is started before that delay has elapsed since the
\* previous one
C32_ReconnectBackoff ==
    /\ []BackoffTable
    /\ [][ReconnectWaits]_vars

\* the sixth reconnect attempt has been started, 32 s or more after the fifth
C32_Witness ==
    /\ out.op = "sim.tick"
    /\ \E i \in DOMAIN out.mqtt : out.mqtt[i] = "connect"
    /\ sim.reconnectAttempts = 6
    /\ sim.sinceAttempt = 0

----------------------------------------------------------------------------
(* C33: the order of the provisioning protocol *)

\* the calls one entry point made on the provisioning transport
Sent(call) == Has(out'.prov, call)

\* this step constructs a DpsProvisioning and starts it
EngineStarted == out'.op = "connectToIotHub" /\ Sent("connect")

\* the completions this step reports come from the live engine
EngineCompletes ==
    /\ out'.completions # <<>>
    /\ ~EngineStarted
    /\ provClient.target = "engine"

NonTerminal == {"Idle", "ConnectingToDps", "SendingRegistration",
                "WaitingForAssignment"}

\* the edges of Idle -> ConnectingToDps -> SendingRegistration ->
\* WaitingForAssignment -> Completed | Failed
ProtocolEdges ==
    {<<"Idle", "ConnectingToDps">>,
     <<"ConnectingToDps", "SendingRegistration">>,
     <<"SendingRegistration", "WaitingForAssignment">>,
     <<"SendingRegistration", "Completed">>,
     <<"WaitingForAssignment", "Completed">>}
    \cup {<<from, "Failed">> : from \in NonTerminal}

\* the state the engine of the pre-state is left in by this step
EndState ==
    IF EngineCompletes
    THEN IF out'.completions[1] THEN "Completed" ELSE "Failed"
    ELSE dps'.state

StateOrder ==
    /\ (dps.alive /\ ~EngineStarted /\ EndState # dps.state) =>
           <<dps.state, EndState>> \in ProtocolEdges
    /\ EngineStarted =>
           /\ Len(out'.completions) <= 1
           /\ IF out'.completions = <<>>
              THEN dps'.alive /\ dps'.state = "ConnectingToDps"
              ELSE out'.completions = <<FALSE>>
    /\ EngineCompletes => Len(out'.completions) = 1

\* subscribe, then the registration request, once, on the connection
RegistrationSent ==
    (Sent("subscribe") \/ Sent("publish:register")) =>
        /\ dps.alive /\ dps.state = "ConnectingToDps"
        /\ EndState \in {"SendingRegistration", "Failed"}
        /\ \E i \in DOMAIN out'.prov :
             /\ out'.prov[i] = "subscribe"
             /\ i + 1 \in DOMAIN out'.prov
             /\ out'.prov[i + 1] = "publish:register"
             /\ \A j \in DOMAIN out'.prov :
                  out'.prov[j] \in {"subscribe", "publish:register"}
                      => j \in {i, i + 1}

\* a status request: only while waiting, with an operation id, and the
\* polling interval after the previous one
PollSent ==
    Sent("publish:poll") =>
        /\ dps.alive /\ dps.state = "WaitingForAssignment"
        /\ dps.operationId # ""
        /\ dps.sincePoll >= kPollingInterval
        /\ dps'.sincePoll = 0
        /\ Len(SelectSeq(out'.prov, LAMBDA c : c = "publish:poll")) = 1

\* a terminal engine, or none, publishes nothing and stays as it is
TerminalIsFinal ==
    ((~dps.alive \/ dps.state \in {"Completed", "Failed"}) /\ ~EngineStarted) =>
        /\ dps'.state = dps.state
        /\ ~Sent("subscribe") /\ ~Sent("publish:register")
        /\ ~Sent("publish:poll")

\* C33: the engine's state follows Idle -> ConnectingToDps ->
\* SendingRegistration -> WaitingForAssignment -> Completed | Failed; it
\* calls subscribe, then the registration publish, then status polls only
\* in WaitingForAssignment with the captured operation id and at least the
\* polling interval apart; a terminal engine publishes nothing and does
\* not change state
C33_ProtocolOrder ==
    [][StateOrder /\ RegistrationSent /\ PollSent /\ TerminalIsFinal]_vars

\* a status poll has just been published by processEvents
C33_Witness ==
    /\ out.op = "processEvents"
    /\ Has(out.prov, "publish:poll")
    /\ dps.state = "WaitingForAssignment"
    /\ dps.operationId = "op1"

------------------------------------------------------------


------------------------------------------------------------


----------------------------------------------------------------------------
(* C34: bounded retries of the TelemetryPipeline *)

\* position i of retryQueue_ before the step, and what the step did with it
StillQueued(i) ==
    \E j \in DOMAIN pipe'.retryQueue :
        pipe'.retryQueue[j].id = pipe.retryQueue[i].id

QueuedAfter(i) ==
    CHOOSE m \in {pipe'.retryQueue[j] : j \in DOMAIN pipe'.retryQueue} :
        m.id = pipe.retryQueue[i].id

\* the transport accepted the message in this step
Accepted(i) ==
    /\ \E j \in DOMAIN sent' : sent'[j] = pipe.retryQueue[i].id
    /\ \A j \in DOMAIN sent : sent[j] # pipe.retryQueue[i].id

\* the transport rejected it: attempts++ (TelemetryPipeline.cpp:116)
Rejected(i) ==
    StillQueued(i) /\ QueuedAfter(i).attempts # pipe.retryQueue[i].attempts

Tried(i) == Accepted(i) \/ Rejected(i)

\* no queued message has had more than the policy's number of attempts;
\* one queued without a publish starts at 0, one rejected at once at 1
AttemptsBounded ==
    \A i \in DOMAIN pipe.retryQueue :
        /\ pipe.retryQueue[i].attempts <= kMaxAttempts
        /\ pipe.retryQueue[i].attempts = 0 =>
               \A j \in DOMAIN sent : sent[j] # pipe.retryQueue[i].id

RetryPass ==
    \A i \in DOMAIN pipe.retryQueue :
        LET msg == pipe.retryQueue[i]
        IN  /\ Tried(i) =>
                /\ msg.wait = 0
                /\ shouldRetry(msg.attempts)
                /\ msg.attempts + 1 <= kMaxAttempts
            /\ Rejected(i) =>
                /\ QueuedAfter(i).attempts = msg.attempts + 1
                /\ QueuedAfter(i).wait = getBackoffDelay(msg.attempts + 1)
                /\ \A j \in DOMAIN pipe.retryQueue : j > i => ~Tried(j)
            /\ (~Tried(i) /\ ~StillQueued(i)) =>
                /\ msg.wait = 0
                /\ ~shouldRetry(msg.attempts)
                /\ \A j \in DOMAIN pipe.retryQueue :
                     (/\ j = i + 1
                      /\ pipe.retryQueue[j].wait = 0
                      /\ shouldRetry(pipe.retryQueue[j].attempts)) => Tried(j)

\* C34: a queued message is not attempted before its retry time; a failed
\* attempt increments attempts, sets the retry time to now + backoff(attempts)
\* and ends the pass; a message whose attempts exhaust shouldRetry is dropped
\* without a publish and the next one is processed; no message gets more
\* than kMaxAttempts publish attempts, the initial one included
C34_BoundedRetries == []AttemptsBounded /\ [][RetryPass]_vars

\* a message was dropped after its last permitted attempt: handed over,
\* no longer queued, never accepted
C34_Witness ==
    /\ pipe.running
    /\ pipe.handed = 1
    /\ pipe.retryQueue = <<>>
    /\ sent = <<>>
    /\ transport.connected
    /\ transport.failPublish
    /\ bus.queue = <<>>

----------------------------------------------------------------------------
(* C35: heartbeat pacing of the TelemetryPipeline *)

\* the interval in force: H_moving while the last reported motion state is
\* moving, the longer H_stationary otherwise
IntervalInForce ==
    IF pipe.lastMotionState THEN kMovingInterval ELSE kStationaryInterval

\* the step put a Heartbeat on the event bus
HeartbeatGenerated ==
    /\ bus'.created = bus.created + 1
    /\ bus'.queue = Append(bus.queue, [type |-> "Heartbeat", pct |-> 100])

Heartbeats(queue) == Len(SelectSeq(queue, LAMBDA e : e.type = "Heartbeat"))

HeartbeatPacing ==
    /\ kMovingInterval < kStationaryInterval
    \* generated by processEvents exactly when the interval has elapsed
    /\ PipeProcessEvents =>
           (HeartbeatGenerated <=> pipe.sinceHeartbeat >= IntervalInForce)
    /\ HeartbeatGenerated =>
           /\ pipe.running
           /\ pipe.sinceHeartbeat >= IntervalInForce
           /\ pipe'.sinceHeartbeat = 0
    \* the timer runs with the clock and restarts at start() and at an
    \* emission only
    /\ pipe'.sinceHeartbeat > pipe.sinceHeartbeat => PipeAdvance
    /\ pipe'.sinceHeartbeat < pipe.sinceHeartbeat =>
           pipe'.sinceHeartbeat = 0 /\ (HeartbeatGenerated \/ PipeStart)
    \* every handler of a running pipeline hands a dispatched heartbeat to
    \* sendTelemetry
    /\ (BusProcessEvents /\ pipe.running) =>
           pipe'.handed - pipe.handed >= bus.handlers * Heartbeats(bus.queue)

\* C35: while running, processEvents generates a Heartbeat exactly when the
\* time since the last heartbeat (or start) has reached the interval in force
\* (moving: 60 s, stationary: 300 s); the timer restarts at each emission, so
\* consecutive heartbeats are at least one interval apart; the reporting
\* policy never suppresses a generated heartbeat
C35_HeartbeatPacing == [][HeartbeatPacing]_vars

\* a heartbeat generated under the moving interval, short of the
\* stationary one
C35_Witness ==
    /\ pipe.running
    /\ pipe.lastMotionState
    /\ pipe.sinceHeartbeat = 0
    /\ bus.queue # <<>>
    /\ bus.queue[Len(bus.queue)].type = "Heartbeat"
    /\ pipe.handed >= 1

----------------------------------------------------------------------------
(* C36: a LowBattery event of the state machine reaches the transport *)

LowBatteryQueued ==
    \E i \in DOMAIN bus.queue : bus.queue[i].type = "LowBattery"

\* the dispatch handed every queued event to sendTelemetry, once per handler
AllForwarded ==
    pipe'.handed - pipe.handed = bus.handlers * Len(bus.queue)

\* AllForwarded, and the transport took every one of them
AllPublished ==
    /\ AllForwarded
    /\ Len(sent') - Len(sent) = bus.handlers * Len(bus.queue)

LowBatteryDispatch ==
    (/\ BusProcessEvents
     /\ LowBatteryQueued
     /\ pipe.running
     /\ bus.handlers > 0
     /\ transport.connected
     /\ ~transport.failPublish) => AllPublished

\* C36: the LowBattery event that DeviceStateMachine emits on a downward
\* battery crossing is published by a running TelemetryPipeline with a
\* connected transport: the battery reporting policy does not suppress it
C36_LowBatteryPublished == [][LowBatteryDispatch]_vars

----------------------------------------------------------------------------
(* C37: the Simulator's connected_ and the orchestrator's state *)

\* C37: in DPS mode, between callbacks, connected_ is true exactly when the
\* DpsConnectionManager is Connected, also after stop()/start() cycles and
\* after a reboot command
C37_ConnectedAgrees ==
    (sim.dps /\ ~crashed) => (sim.connected <=> mgr.state = "Connected")

----------------------------------------------------------------------------
(* C38: the lifetime of the provisioning engine *)

\* the step released the DpsProvisioning object (dpsProvisioning_.reset())
EngineReleased == provClient.target = "engine" /\ provClient'.target = "freed"

\* the step ran completeProvisioning and, inside it, callback_
CompletionRunning == out'.completions # <<>>

\* the step delivered a callback of the provisioning transport
TransportCallback ==
    out'.op \in {"prov.onConnected", "prov.onConnectFailure",
                 "prov.connectionLost", "prov.messageArrived"}

EngineLifetime ==
    /\ EngineReleased => ~CompletionRunning
    /\ TransportCallback => provClient.target # "freed"

\* C38: the DpsProvisioning object is never released while one of its own
\* operations or its completion callback is executing, and after its
\* release the provisioning transport delivers no connection or message
\* callback to it
C38_EngineLifetime == [][EngineLifetime]_vars

----------------------------------------------------------------------------
(* C39: one connection attempt in flight *)

\* a connect initiated earlier has reported neither success nor failure
AttemptInFlight == mqttClient.pending > 0

\* attemptReconnection called connectToIoTHub in this step, which called
\* PahoMqttClient::connect
ReconnectInitiated ==
    /\ out'.op = "sim.tick"
    /\ sim'.reconnectAttempts = sim.reconnectAttempts + 1
    /\ Has(out'.mqtt, "connect")

\* C39: attemptReconnection never initiates a connection attempt while one
\* initiated before has been reported neither successful nor failed
C39_OneAttemptInFlight == [][ReconnectInitiated => ~AttemptInFlight]_vars

----------------------------------------------------------------------------
(* C40: the state of DeviceStateMachine and its recorded scalars *)

StateMatchesScalars ==
    /\ dsm.currentState = "Offline" <=> ~dsm.connected
    /\ dsm.connected =>
           (dsm.currentState = "LowBattery"
                <=> dsm.batteryPercentage < LOW_BATTERY_THRESHOLD)

\* an ignition, motion or battery input while Offline changes no state and
\* emits no event
OfflineIsInert ==
    (/\ dsm.currentState = "Offline"
     /\ DsmSetIgnition \/ DsmSetMotion \/ DsmSetBatteryLevel) =>
        /\ dsm'.currentState = "Offline"
        /\ dsm'.emitted = <<>>

\* C40: after any sequence of setIgnition, setMotion, setBatteryLevel and
\* setConnectionStatus the state is Offline exactly when the recorded
\* connection status is disconnected, and, when connected, LowBattery
\* exactly when the recorded battery level is below LOW_BATTERY_THRESHOLD;
\* while Offline the other inputs change no state and emit no event
C40_StateMatchesScalars == []StateMatchesScalars /\ [][OfflineIsInert]_vars

\* the battery fell below the threshold while the machine was Offline
C40_Witness ==
    /\ dsm.currentState = "Offline"
    /\ dsm.op = "setBatteryLevel"
    /\ dsm.batteryPercentage < LOW_BATTERY_THRESHOLD
    /\ dsm.before.batteryPercentage >= LOW_BATTERY_THRESHOLD
    /\ dsm.ignitionOn
============================================================================
